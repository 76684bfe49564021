---------------------------- MODULE PlayerElements ----------------------------
(***************************************************************************)
(* The elements of the pipeline and what InterfacePlayerRDK learns from     *)
(* them: bus_sync_handler sees a change of state in the thread that made it,*)
(* bus_message sees it later in the main loop, and the callbacks connected  *)
(* in the two tell of the first frame and of underflows.  Which element is  *)
(* a decoder or a sink depends on the platform (vendor/*SocInterface.cpp)   *)
(* and on the sinks in use.                                                 *)
(*                                                                         *)
(* A handler is one step; handlers that outlive the waits of Stop are the  *)
(* matter of PlayerStop.  Left out: cached settings (SinkSettings), the time*)
(* codes, the tasks (IdleTasks) and the messages that are handed on only.   *)
(***************************************************************************)
EXTENDS Naturals, Sequences, FiniteSets

CONSTANTS
  Platforms,      \* the SocInterfaces considered
  MaxPlaybacks,   \* pipelines created in a behaviour
  MaxChanges      \* changes of a stream's format in a behaviour

\* The kinds that SocInterface::CreateSocInterface knows (SocInterface.cpp:151-178).
ASSUME ElementsAssumption ==
  /\ Platforms \subseteq {"amlogic", "realtek", "brcm", "default"}
  /\ MaxPlaybacks \in Nat /\ MaxChanges \in Nat

NoElement == <<"none", 0>>
VideoBin == "video"
AudioBin == "audio"

VARIABLES
  platform,       \* of the one SocInterface there is
  socWesteros,    \* mUsingWesterosSink of the SocInterface
  westeros, rialto,             \* using_westerossink, usingRialtoSink
  pipeline,       \* its state, "none" if there is none
  elements,       \* in the pipeline: records of name, generation, stage
  generation,     \* counts the sets of elements
  busQueue,       \* messages of the bus that the main loop has not handled
  syncOn, asyncOn, callbacksOn, \* of the three GstHandlerControls
  video_dec, video_sink, audio_dec, audio_sink, \* the generation and name
  callbacks,      \* mCallBackIdentifiers: pairs of an element and a signal
  tracks,         \* NumberOfTracks
  pauseOnStart,   \* pauseOnStartPlayback
  firstTune,      \* firstTuneWithWesterosSinkOff
  firstVideo, firstAudio, firstFrame, \* first[Video|Audio]FrameReceived
  streams,        \* that are set up
  stopping,       \* Stop is between its two parts
  told,           \* history: first frames told since the last reset
  late,           \* history: a frame came while Stop was at work
  kept,           \* history: the last Stop kept the last frame
  playbacks, changes

flagVars == <<firstVideo, firstAudio, firstFrame, told>>
stopVars == <<stopping, late, kept>>
configVars == <<socWesteros, westeros, rialto>>
pointerVars == <<video_dec, video_sink, audio_dec, audio_sink>>
controlVars == <<syncOn, asyncOn, callbacksOn>>
playVars == <<tracks, streams, playbacks, changes, generation>>
elementVars == <<platform, configVars, pipeline, elements, busQueue, controlVars,
                 pointerVars, callbacks, pauseOnStart, firstTune, flagVars,
                 playVars, stopVars>>

-----------------------------------------------------------------------------
(* What the SocInterface of a platform says of the names of elements, and    *)
(* of the callbacks it has.  mUsingWesterosSink decides for most of them.   *)

Rialto == {"rialtomsevideosink", "rialtomseaudiosink"}
Only(condition, names) == IF condition THEN names ELSE {}

SocInterface ==
  [firstAudioCallback |-> TRUE, sinkHandlesErrors |-> FALSE, tellsFirstTune |-> FALSE,
   simulatorFirstFrame |-> FALSE, asksAudioBin |-> FALSE,
   videoSinks |-> {}, videoDecoders |-> {}, decoders |-> {}, audioSinks |-> {}]

AmlogicSocInterface ==
  LET westerossink == Only(socWesteros, {"westerossink"}) IN
  [SocInterface EXCEPT
     !.asksAudioBin = TRUE,
     !.videoSinks = westerossink \union Only(rialto, {"rialtomsevideosink"}),
     !.videoDecoders = westerossink \union
                       Only(rialto /\ ~socWesteros, {"rialtomsevideosink"}),
     !.decoders = westerossink \union Only(rialto, Rialto),
     !.audioSinks = {"amlhalasink"}]

RealtekSocInterface ==
  [SocInterface EXCEPT
     !.firstAudioCallback = FALSE, !.sinkHandlesErrors = TRUE, !.tellsFirstTune = TRUE,
     !.videoSinks = {"westerossink", "rtkv1sink"} \union Only(rialto, {"rialtomsevideosink"}),
     !.videoDecoders = {"omxh264dec"},
     !.decoders = {"omxh264dec", "omxaacdec"} \union Only(rialto, Rialto),
     !.audioSinks = {"rtkaudiosink"}]

BrcmSocInterface ==
  [SocInterface EXCEPT
     !.videoSinks = {IF socWesteros THEN "westerossink" ELSE "brcmvideosink"}
                    \union Only(rialto, {"rialtomsevideosink"}),
     !.videoDecoders = {IF socWesteros THEN "westerossink"
                        ELSE IF rialto THEN "rialtomsevideosink" ELSE "brcmvideodecoder"},
     !.decoders = {"brcmaudiodecoder", IF socWesteros THEN "westerossink"
                                       ELSE "brcmvideodecoder"}
                  \union Only(rialto /\ ~socWesteros, Rialto),
     !.audioSinks = {"brcmaudiosink"}]

DefaultSocInterface ==
  LET westerossink == Only(socWesteros, {"westerossink"}) IN
  [SocInterface EXCEPT
     !.simulatorFirstFrame = TRUE,
     !.videoSinks = westerossink,
     !.videoDecoders = westerossink \union
                       Only(rialto /\ ~socWesteros, {"rialtomsevideosink"}),
     !.decoders = westerossink \union Only(rialto, Rialto),
     !.audioSinks = {"amlhalasink"}]

socInterface ==
  CASE platform = "amlogic" -> AmlogicSocInterface
    [] platform = "realtek" -> RealtekSocInterface
    [] platform = "brcm" -> BrcmSocInterface
    [] platform = "default" -> DefaultSocInterface

VideoSinks == socInterface.videoSinks             \* GstPlayer_isVideoSink
VideoDecoders == socInterface.videoDecoders       \* GstPlayer_isVideoDecoder
Decoders == socInterface.decoders                 \* GstPlayer_isVideoOrAudioDecoder

(* What the bins of the streams are made of: SetupStream sets the sinks of  *)
(* Rialto and of westeros, playbin finds the others; and which of their     *)
(* signals the elements have.                                               *)
VideoElements ==
  IF rialto THEN {"rialtomsevideosink"}
  ELSE CASE platform = "realtek" ->
              {"omxh264dec", IF westeros THEN "westerossink" ELSE "rtkv1sink"}
         [] platform = "brcm" /\ ~westeros -> {"brcmvideodecoder", "brcmvideosink"}
         [] westeros /\ platform # "realtek" -> {"westerossink"}
         [] OTHER -> {"autovideosink"}

AudioElements ==
  IF rialto THEN {"rialtomseaudiosink"}
  ELSE CASE platform = "realtek" -> {"omxaacdec", "rtkaudiosink"}
         [] platform = "brcm" -> {"brcmaudiodecoder", "brcmaudiosink"}
         [] platform = "amlogic" -> {"amlhalasink"}
         [] platform = "default" -> {"autoaudiosink"}

ElementsOf(s) == IF s = VideoBin THEN VideoElements ELSE AudioElements

HasFirstFrame(name) ==
  name \in {"westerossink", "rialtomsevideosink", "brcmvideodecoder", "omxh264dec",
            "brcmaudiodecoder", "rtkaudiosink"}

ReportsVideoUnderflow ==
  VideoElements \intersect
    {"westerossink", "rtkv1sink", "brcmvideodecoder", "rialtomsevideosink"}

-----------------------------------------------------------------------------
ElementsInit ==
  /\ platform \in Platforms
  /\ socWesteros = FALSE /\ westeros = FALSE /\ rialto = FALSE
  /\ pipeline = "none" /\ elements = {} /\ busQueue = <<>> /\ generation = 0
  /\ syncOn = FALSE /\ asyncOn = FALSE /\ callbacksOn = FALSE
  /\ video_dec = NoElement /\ video_sink = NoElement
  /\ audio_dec = NoElement /\ audio_sink = NoElement
  /\ callbacks = {} /\ tracks = 0 /\ streams = {}
  /\ pauseOnStart = FALSE /\ firstTune = FALSE
  /\ firstVideo = FALSE /\ firstAudio = FALSE /\ firstFrame = FALSE
  /\ stopping = FALSE /\ told = 0 /\ late = FALSE /\ kept = FALSE
  /\ playbacks = 0 /\ changes = 0

\* SetupStream: the elements of new streams, of the next generation.
NewElements(ss, g) ==
  UNION {{[name |-> n, stream |-> s, generation |-> g, stage |-> "NULL"] :
            n \in ElementsOf(s)} : s \in ss}

(* ConfigurePipeline without a pipeline: the sinks in use are set (294-327),*)
(* the pipeline is created with its bus, and its streams are set up.        *)
Configure(useWesteros, useRialto, ss, pause) ==
  /\ pipeline = "none" /\ ~stopping /\ playbacks < MaxPlaybacks
  /\ westeros' = useWesteros /\ rialto' = useRialto
  /\ socWesteros' = (socWesteros \/ useWesteros)
  /\ firstTune' = IF useWesteros THEN firstTune ELSE socInterface.tellsFirstTune
  /\ pauseOnStart' = pause
  /\ pipeline' = "READY" /\ busQueue' = <<>>
  /\ syncOn' = TRUE /\ asyncOn' = TRUE
  /\ UNCHANGED platform
  /\ generation' = generation + 1
  /\ elements' = NewElements(ss, generation)'
  /\ tracks' = Cardinality(ss) /\ streams' = ss
  /\ playbacks' = playbacks + 1
  /\ UNCHANGED <<callbacksOn, pointerVars, callbacks, flagVars, changes, stopVars>>

(* ConfigurePipeline with a pipeline: a stream has another format, is torn  *)
(* down and set up again.                                                   *)
ChangeFormat(s) ==
  /\ pipeline # "none" /\ ~stopping /\ s \in streams /\ changes < MaxChanges
  /\ firstTune' = IF westeros THEN firstTune ELSE socInterface.tellsFirstTune
  /\ tracks' = tracks + 1
  /\ elements' = {e \in elements : e.stream # s} \union NewElements({s}, generation + 1)
  /\ generation' = generation + 1
  /\ video_dec' = IF s = VideoBin THEN NoElement ELSE video_dec
  /\ video_sink' = IF s = VideoBin THEN NoElement ELSE video_sink
  /\ audio_dec' = IF s = AudioBin THEN NoElement ELSE audio_dec
  /\ audio_sink' = IF s = AudioBin THEN NoElement ELSE audio_sink
  /\ changes' = changes + 1
  /\ UNCHANGED <<platform, configVars, pipeline, busQueue, controlVars, callbacks,
                 pauseOnStart, flagVars, streams, playbacks, stopVars>>

\* The present element, whatever its stage.
Ref(e) == <<e.name, e.generation>>

\* SignalConnect: the identifiers are recorded and the callbacks allowed.
SignalConnect(pairs) ==
  /\ callbacks' = callbacks \union pairs
  /\ callbacksOn' = (callbacksOn \/ pairs # {})

\* The callback of the first frame that is connected to an element.
FirstFrameCallback(name) ==
  CASE name \in Decoders \intersect VideoDecoders -> {"first-video-frame-callback"}
    [] name \in Decoders \ VideoDecoders ->
         Only(socInterface.firstAudioCallback, {"first-audio-frame-callback"})
    [] name = "rtkaudiosink" -> Only(~socInterface.firstAudioCallback, {"first-audio-frame"})
    [] OTHER -> {}

(* bus_sync_handler for NULL to READY: the pointer to the decoder and the   *)
(* callback of the first frame.                                             *)
SyncReady(e) ==
  IF ~syncOn THEN UNCHANGED <<callbacks, callbacksOn, video_dec, audio_dec>>
  ELSE
    /\ video_dec' = IF e.name \in Decoders \intersect VideoDecoders THEN Ref(e) ELSE video_dec
    /\ audio_dec' = IF e.name \in Decoders \ VideoDecoders THEN Ref(e) ELSE audio_dec
    /\ SignalConnect({<<Ref(e), c>> : c \in FirstFrameCallback(e.name)})

(* bus_sync_handler for READY to PAUSED: the sinks.                         *)
SyncPaused(e) ==
  IF ~syncOn THEN UNCHANGED <<video_sink, audio_sink>>
  ELSE
    /\ video_sink' = IF e.name \in VideoSinks THEN Ref(e) ELSE video_sink
    /\ audio_sink' = IF e.name \notin VideoSinks /\
                        e.name \in {"rialtomseaudiosink"} \union socInterface.audioSinks
                     THEN Ref(e) ELSE audio_sink

Posted(m) == IF asyncOn THEN Append(busQueue, m) ELSE busQueue

\* The elements change their states one after another, a state at a time.
NextIn(stage) == {CHOOSE e \in elements : e.stage = stage}
In(stage) == \E e \in elements : e.stage = stage

ElementReady ==
  /\ In("NULL")
  /\ \E e \in NextIn("NULL") :
       /\ elements' = (elements \ {e}) \union {[e EXCEPT !.stage = "READY"]}
       /\ SyncReady(e)
       /\ busQueue' = Posted([of |-> Ref(e), state |-> "READY"])
  /\ UNCHANGED <<platform, configVars, pipeline, syncOn, asyncOn, video_sink, audio_sink,
                 pauseOnStart, firstTune, flagVars, playVars, stopVars>>

ElementPaused ==
  /\ In("READY") /\ ~In("NULL")
  /\ \E e \in NextIn("READY") :
       /\ elements' = (elements \ {e}) \union {[e EXCEPT !.stage = "PAUSED"]}
       /\ SyncPaused(e)
  /\ UNCHANGED <<platform, configVars, pipeline, busQueue, controlVars, video_dec, audio_dec,
                 callbacks, pauseOnStart, firstTune, flagVars, playVars, stopVars>>

\* The pipeline follows when all elements are there; its messages are queued.
PipelineGoes(state) ==
  /\ \/ pipeline = "READY" /\ state = "PAUSED"
     \/ pipeline = "PAUSED" /\ state = "PLAYING"
  /\ \A e \in elements : e.stage \in {"PAUSED", "SHOWN"}
  /\ pipeline' = state
  /\ busQueue' = Posted([of |-> <<"pipeline", 0>>, state |-> state])
  /\ UNCHANGED <<platform, configVars, elements, controlVars, pointerVars, callbacks,
                 pauseOnStart, firstTune, flagVars, playVars, stopVars>>

-----------------------------------------------------------------------------
\* Faulty variant: the tracks are not looked at.
NotifyFirstFrame_VideoOnly(video, audio) ==
  /\ firstVideo' = video /\ firstAudio' = audio
  /\ IF ~firstFrame /\ video
     THEN firstFrame' = TRUE /\ told' = told + 1
     ELSE UNCHANGED <<firstFrame, told>>

(* NotifyFirstFrame (3612-3626), with the flags its callers have set.       *)
NotifyFirstFrame(video, audio) ==
  /\ firstVideo' = video /\ firstAudio' = audio
  /\ IF ~firstFrame /\ (video \/ (tracks = 1 /\ audio))
     THEN firstFrame' = TRUE /\ told' = told + 1
     ELSE UNCHANGED <<firstFrame, told>>

\* Lines 4137-4166: the sink steps, and its callback tells of the frame.
StepsOnPreroll ==
  video_sink[1] = "westerossink"

PausedTells ==
  /\ pauseOnStart' = FALSE
  /\ IF pauseOnStart /\ (rialto \/ ~StepsOnPreroll)
     THEN NotifyFirstFrame(TRUE, firstAudio)
     ELSE UNCHANGED flagVars
  /\ UNCHANGED firstTune

(* Lines 4167-4228: an audio-only playback on a platform that can ask its   *)
(* bin, Rialto, the first tune without westeros, and the simulator; the     *)
(* application configures audioOnlyMode for an audio-only playback.         *)
PlayingTells ==
  LET audioOnly == /\ streams = {AudioBin} /\ ~firstAudio /\ tracks = 1
                   /\ socInterface.asksAudioBin
      tune == firstTune /\ socInterface.tellsFirstTune
  IN
  /\ pauseOnStart' = FALSE
  /\ firstTune' = (firstTune /\ ~tune)
  /\ IF audioOnly \/ rialto \/ tune
     THEN NotifyFirstFrame(firstVideo \/ rialto \/ tune,
                           firstAudio \/ audioOnly \/ rialto \/ tune)
     ELSE IF socInterface.simulatorFirstFrame /\ ~firstFrame
     THEN firstFrame' = TRUE /\ told' = told + 1 /\ UNCHANGED <<firstVideo, firstAudio>>
     ELSE UNCHANGED flagVars

\* Faulty variant: the decoders are connected on every platform.
ConnectsErrors_Decoders(name) == ~rialto /\ name \in Decoders

\* Lines 4268-4300: the callbacks of errors and underflows.
ConnectsErrors(name) ==
  ~rialto /\ name \in (IF socInterface.sinkHandlesErrors THEN VideoSinks ELSE Decoders)

AsyncReady(ref) ==
  SignalConnect(Only(ConnectsErrors(ref[1]) \/ ref[1] \in Rialto,
                   {<<ref, "buffer-underflow-callback">>}))

(* bus_message: the main loop handles the first message, if Stop has not    *)
(* disabled its handler.                                                    *)
bus_message ==
  /\ busQueue # <<>> /\ asyncOn
  /\ busQueue' = Tail(busQueue)
  /\ \/ /\ Head(busQueue).state = "READY"
        /\ AsyncReady(Head(busQueue).of)
        /\ UNCHANGED <<pauseOnStart, firstTune, flagVars>>
     \/ Head(busQueue).state = "PAUSED" /\ PausedTells /\ UNCHANGED <<callbacks, callbacksOn>>
     \/ Head(busQueue).state = "PLAYING" /\ PlayingTells /\ UNCHANGED <<callbacks, callbacksOn>>
  /\ UNCHANGED <<platform, configVars, pipeline, elements, syncOn, asyncOn, pointerVars,
                 playVars, stopVars>>

(* The first frame of an element; without a connected callback nobody hears *)
(* of it (551-592).                                                         *)
FirstFrame(e) ==
  /\ e.stage = "PAUSED" /\ HasFirstFrame(e.name)
  /\ elements' = (elements \ {e}) \union {[e EXCEPT !.stage = "SHOWN"]}
  /\ \/ /\ callbacksOn /\ <<Ref(e), "first-video-frame-callback">> \in callbacks
        /\ NotifyFirstFrame(TRUE, firstAudio)
     \/ /\ callbacksOn
        /\ callbacks \intersect {<<Ref(e), "first-audio-frame-callback">>,
                                 <<Ref(e), "first-audio-frame">>} # {}
        /\ NotifyFirstFrame(firstVideo, TRUE)
     \/ /\ ~callbacksOn \/ \A c \in callbacks :
             c[1] = Ref(e) => c[2] = "buffer-underflow-callback"
        /\ UNCHANGED flagVars
  /\ late' = (late \/ stopping)
  /\ UNCHANGED <<platform, configVars, pipeline, busQueue, controlVars, pointerVars,
                 callbacks, pauseOnStart, firstTune, playVars, stopping, kept>>

-----------------------------------------------------------------------------
(* Stop (1361-1461): the handlers of the bus are disabled and the flags     *)
(* reset, unless the last frame is kept; then the callbacks are, and the    *)
(* streams and the pipeline are taken apart.                                *)
StopBegins(keepLastFrame) ==
  /\ pipeline # "none" /\ ~stopping
  /\ stopping' = TRUE
  /\ syncOn' = FALSE /\ asyncOn' = FALSE /\ busQueue' = <<>>
  /\ kept' = keepLastFrame
  /\ IF keepLastFrame THEN UNCHANGED <<flagVars, late>>
     ELSE /\ firstVideo' = FALSE /\ firstAudio' = FALSE /\ firstFrame' = FALSE
          /\ told' = 0 /\ late' = FALSE
  /\ UNCHANGED <<platform, configVars, pipeline, elements, callbacksOn, pointerVars,
                 callbacks, pauseOnStart, firstTune, playVars>>

StopEnds ==
  /\ stopping /\ stopping' = FALSE
  /\ callbacksOn' = FALSE /\ callbacks' = {}
  /\ pipeline' = "none" /\ elements' = {} /\ tracks' = 0 /\ streams' = {}
  /\ video_dec' = NoElement /\ video_sink' = NoElement
  /\ audio_dec' = NoElement /\ audio_sink' = NoElement
  /\ UNCHANGED <<platform, configVars, busQueue, syncOn, asyncOn, pauseOnStart, firstTune,
                 flagVars, playbacks, changes, generation, late, kept>>

\* The application wants to be told of the next playback's first frame; what Stop
\* left of the frames of the two streams stays.
ResetFirstFrame ==
  /\ pipeline = "none" /\ firstFrame
  /\ firstFrame' = FALSE /\ told' = 0
  /\ UNCHANGED <<platform, configVars, pipeline, elements, busQueue, controlVars, pointerVars,
                 callbacks, pauseOnStart, firstTune, firstVideo, firstAudio, playVars,
                 stopVars>>

(* The sinks that a platform's application can use: without Rialto and      *)
(* westeros the video of amlogic has no element that the player knows.      *)
SinkChoices ==
  {<<FALSE, TRUE>>, <<TRUE, FALSE>>}
  \union (IF platform = "amlogic" THEN {} ELSE {<<FALSE, FALSE>>})

ElementsNext ==
  \/ \E c \in SinkChoices, ss \in (SUBSET {VideoBin, AudioBin}) \ {{}}, pause \in BOOLEAN :
       Configure(c[1], c[2], ss, pause)
  \/ \E s \in {VideoBin, AudioBin} : ChangeFormat(s)
  \/ ElementReady \/ ElementPaused
  \/ \E e \in elements : FirstFrame(e)
  \/ \E state \in {"PAUSED", "PLAYING"} : PipelineGoes(state)
  \/ bus_message
  \/ \E keep \in BOOLEAN : StopBegins(keep)
  \/ StopEnds \/ ResetFirstFrame

ElementsSpec == ElementsInit /\ [][ElementsNext]_elementVars

-----------------------------------------------------------------------------
AtRest == busQueue = <<>> /\ pipeline # "none" /\ ~stopping

\* mUsingWesterosSink is never reset: a playback before this one set it.
StaleWesteros == socWesteros /\ ~westeros /\ platform # "realtek"

(* Lines 3612-3626 and 4119-4230: when the pipeline plays, all is handled    *)
(* and the decoders have shown their first frames, the application was told *)
(* of the first frame, once, on every platform and with every sink, also    *)
(* when a stream has changed its format meanwhile.  Not if the last playback*)
(* was told of a frame while it was stopped, if the player mistakes its     *)
(* sinks, or if audio alone is not the only track.                          *)
FirstFrameTold ==
  /\ told <= 1
  /\ AtRest /\ pipeline = "PLAYING"
       /\ (\A e \in elements : e.stage = IF HasFirstFrame(e.name) THEN "SHOWN" ELSE "PAUSED")
       /\ ~late /\ ~(StaleWesteros /\ ~rialto)
       /\ (VideoBin \in streams \/ (tracks = 1 /\ ~kept))
     => told = 1

(* Lines 3940-3968 and 4268-4300: when all is handled, an element that      *)
(* reports underflows of the video is connected, its callback is allowed,   *)
(* and the callback takes it for video, also the element of a changed       *)
(* format and in a later playback with another sink.                        *)
UnderflowHeard ==
  AtRest /\ ~StaleWesteros =>
    \A e \in elements : e.stage # "NULL" /\ e.name \in ReportsVideoUnderflow =>
      /\ callbacksOn /\ <<Ref(e), "buffer-underflow-callback">> \in callbacks
      /\ e.name \in (IF socInterface.sinkHandlesErrors THEN VideoSinks ELSE VideoDecoders)
=============================================================================
