-------------------------- MODULE Playback_proofs ---------------------------
(***************************************************************************)
(* What the application sets and asks for: the settings of the sinks, and   *)
(* the state and the picture of the pipeline; what it is told of the position*)
(* and of the end of stream, by tasks whose ids are those of live tasks; and *)
(* Stop, which takes the pipeline apart with no bus handler in its body,     *)
(* unless a time limit was reached.                                         *)
(***************************************************************************)
EXTENDS EosNotification, IdleTasks, PlayerStop, SinkSettings, PlayerPipeline, Monitoring,
        SequenceTheorems, FiniteSetTheorems, TLAPS

-----------------------------------------------------------------------------
(* The settings of the sinks.                                               *)

InVolume == {"test", "setMute", "clearMute", "applyVolume"}
Nobody(place) == \A t \in Threads : at[t] # place

SinkTypes ==
  /\ at \in [Threads -> {"idle", "lock", "video"} \union InVolume \union VideoSettings]
  /\ audioSink \in [mute : BOOLEAN, volume : Volumes \union {Full}]
  /\ hasMute \in BOOLEAN /\ audioMuted \in BOOLEAN
  /\ audioVolume \in Volumes \union {Full}
  /\ setting \in [VideoSettings -> Values] /\ videoSink \in [VideoSettings -> Values]
  /\ held \in Values
  /\ toApply \subseteq VideoSettings

\* One thread at a time is at the volume, and decides by the volume there is unless
\* a thread still waits; a stale gSource means that bus_sync_handler does.
VolumeDecided ==
  /\ \A t \in Threads : at[t] \in InVolume <=> owner = t
  /\ ~hasMute => ~audioMuted /\ Nobody("setMute") /\ Nobody("clearMute")
  /\ "audio" \in sinks =>
       /\ ~audioMuted => ~audioSink.mute
       /\ \A t \in Threads :
            at[t] \in InVolume /\ t \in stale => at["handler"] = "lock" /\ ~audioSink.mute
       /\ Nobody("lock") =>
            /\ \A t \in Threads : at[t] = "setMute" => audioVolume = 0
            /\ \A t \in Threads : at[t] = "clearMute" => audioVolume # 0
            /\ hasMute => \A t \in Threads : at[t] = "applyVolume" =>
                 (audioMuted <=> audioVolume = 0) /\ (audioSink.mute <=> audioVolume = 0)
            /\ AudioQuiet =>
                 /\ hasMute => (audioSink.mute <=> audioVolume = 0)
                 /\ ~hasMute \/ audioVolume # 0 => audioSink.volume = audioVolume

\* What bus_sync_handler does not apply any more is in effect, or the application is
\* about to apply it.
VideoApplied ==
  /\ at["handler"] \in VideoSettings => at["handler"] \in toApply
  /\ at["handler"] \notin {"video"} \union VideoSettings => toApply = {}
  /\ "video" \in sinks => \A s \in VideoSettings \ overlapped :
       /\ s \in toApply /\ at["handler"] = s => held = setting[s]
       /\ AppApplies(s) /\ at["app"] # s => s \in toApply \/ videoSink[s] = setting[s]

SinkIInv == SinkTypes /\ VolumeDecided /\ VideoApplied

LEMMA SinkInitially == SinkInit => SinkIInv
<1> SUFFICES ASSUME SinkInit PROVE SinkIInv
  OBVIOUS
<1> USE DEF SinkInit
<1>1. SinkTypes
  BY DEF SinkTypes, Values
<1>2. VolumeDecided
  BY DEF VolumeDecided, Nobody, InVolume, Threads
<1>3. VideoApplied
  BY DEF VideoApplied, VideoSettings, Threads
<1> QED
  BY <1>1, <1>2, <1>3 DEF SinkIInv

\* What the video does not touch of the audio, and the other way round.
LEMMA VolumeQuiet ==
  ASSUME SinkIInv, UNCHANGED <<hasMute, audioMuted, audioVolume, audioSink, owner, stale>>,
         "audio" \in sinks' => "audio" \in sinks,
         at' \in [Threads -> {"idle", "lock", "video"} \union InVolume \union VideoSettings],
         \A t \in Threads : at'[t] = at[t] \/ {at[t], at'[t]} \subseteq {"idle", "video"} \union VideoSettings
  PROVE  VolumeDecided'
<1>1. \A t \in Threads, p \in InVolume \union {"lock"} : at'[t] = p <=> at[t] = p
  BY DEF InVolume, VideoSettings
<1>2. AudioQuiet' = AudioQuiet /\ Nobody("lock")' = Nobody("lock")
      /\ Nobody("setMute")' = Nobody("setMute") /\ Nobody("clearMute")' = Nobody("clearMute")
  BY <1>1 DEF AudioQuiet, Nobody, InVolume
<1>3. \A t \in Threads : at'[t] \in InVolume <=> at[t] \in InVolume
  BY <1>1
<1>4. "handler" \in Threads
  BY DEF Threads
<1> QED
  BY <1>1, <1>2, <1>3, <1>4 DEF SinkIInv, VolumeDecided, InVolume

LEMMA VideoQuiet ==
  ASSUME SinkIInv, UNCHANGED <<sinkConfig, videoVars>>,
         "video" \in sinks' => "video" \in sinks,
         \A t \in Threads : at'[t] = at[t]
              \/ {at[t], at'[t]} \subseteq {"idle", "lock"} \union InVolume
  PROVE  VideoApplied'
<1>1. \A s \in VideoSettings \union {"video"}, t \in Threads : at'[t] = s <=> at[t] = s
  BY DEF InVolume, VideoSettings
<1>2. "handler" \in Threads /\ "app" \in Threads
  BY DEF Threads
<1> QED
  BY <1>1, <1>2 DEF SinkIInv, VideoApplied, sinkConfig, videoVars, AppApplies

LEMMA AudioKeeps ==
  ASSUME SinkIInv, AudioNext
  PROVE  SinkIInv'
<1> USE DEF GoesTo, sinkConfig, videoVars, volumeVars, audioVars
<1>0. SinkTypes /\ VolumeDecided /\ VideoApplied
  BY DEF SinkIInv
<1>t. Threads = {"app", "handler"}
  BY DEF Threads
<1>1. ASSUME NEW v \in Volumes, SetAudioVolume(v) PROVE SinkIInv'
  <2>1. SinkTypes'
    BY <1>0, <1>1 DEF SetAudioVolume, SinkTypes
  <2>2. VolumeDecided'
    BY <1>0, <1>1, <1>t DEF SetAudioVolume, SinkTypes, VolumeDecided, Nobody, InVolume, AudioQuiet
  <2>3. VideoApplied'
    BY <1>0, <1>1, VideoQuiet DEF SetAudioVolume, SinkTypes
  <2> QED
    BY <2>1, <2>2, <2>3 DEF SinkIInv
<1>2. CASE NewAudioSink
  <2>1. SinkTypes'
    BY <1>0, <1>2 DEF NewAudioSink, SinkTypes
  <2>2. VolumeDecided'
    BY <1>0, <1>2, <1>t DEF NewAudioSink, SinkTypes, VolumeDecided, Nobody, InVolume, AudioQuiet
  <2>3. VideoApplied'
    BY <1>0, <1>2, VideoQuiet DEF NewAudioSink, SinkTypes
  <2> QED
    BY <2>1, <2>2, <2>3 DEF SinkIInv
<1>3. ASSUME NEW t \in Threads, LockVolume(t) PROVE SinkIInv'
  <2>1. SinkTypes'
    BY <1>0, <1>3 DEF LockVolume, SinkTypes, InVolume
  <2>2. VolumeDecided'
    BY <1>0, <1>3, <1>t DEF LockVolume, SinkTypes, VolumeDecided, Nobody, InVolume, AudioQuiet
  <2>3. VideoApplied'
    BY <1>0, <1>3, VideoQuiet DEF LockVolume, SinkTypes, InVolume
  <2> QED
    BY <2>1, <2>2, <2>3 DEF SinkIInv
<1>4. ASSUME NEW t \in Threads, TestVolume(t) PROVE SinkIInv'
  <2>1. SinkTypes'
    BY <1>0, <1>4 DEF TestVolume, SinkTypes, InVolume
  <2>2. VolumeDecided'
    BY <1>0, <1>4, <1>t DEF TestVolume, SinkTypes, VolumeDecided, Nobody, InVolume, AudioQuiet
  <2>3. VideoApplied'
    BY <1>0, <1>4, VideoQuiet DEF TestVolume, SinkTypes, InVolume
  <2> QED
    BY <2>1, <2>2, <2>3 DEF SinkIInv
<1>5. ASSUME NEW t \in Threads, ApplyMute(t) PROVE SinkIInv'
  <2>1. SinkTypes'
    BY <1>0, <1>5 DEF ApplyMute, SinkTypes, InVolume
  <2>2. VolumeDecided'
    BY <1>0, <1>5, <1>t DEF ApplyMute, SinkTypes, VolumeDecided, Nobody, InVolume, AudioQuiet
  <2>3. VideoApplied'
    BY <1>0, <1>5, VideoQuiet DEF ApplyMute, SinkTypes, InVolume
  <2> QED
    BY <2>1, <2>2, <2>3 DEF SinkIInv
<1>6. ASSUME NEW t \in Threads, ApplyVolume(t) PROVE SinkIInv'
  <2>1. SinkTypes'
    BY <1>0, <1>6 DEF ApplyVolume, SinkTypes, InVolume
  <2>2. VolumeDecided'
    BY <1>0, <1>6, <1>t DEF ApplyVolume, SinkTypes, VolumeDecided, Nobody, InVolume, AudioQuiet
  <2>3. VideoApplied'
    BY <1>0, <1>6, VideoQuiet DEF ApplyVolume, SinkTypes, InVolume
  <2> QED
    BY <2>1, <2>2, <2>3 DEF SinkIInv
<1> QED
  BY <1>1, <1>2, <1>3, <1>4, <1>5, <1>6 DEF AudioNext

LEMMA VideoKeeps ==
  ASSUME SinkIInv, VideoNext
  PROVE  SinkIInv'
<1> USE DEF GoesTo, sinkConfig, volumeVars, audioVars
<1>0. SinkTypes /\ VolumeDecided /\ VideoApplied
  BY DEF SinkIInv
<1>t. Threads = {"app", "handler"}
  BY DEF Threads
<1>1. CASE NewVideoSink
  <2>1. SinkTypes'
    BY <1>0, <1>1 DEF NewVideoSink, SinkTypes, HandlerApplies, VideoSettings, Values
  <2>2. VolumeDecided'
    BY <1>0, <1>1, <2>1, <1>t, VolumeQuiet DEF NewVideoSink, SinkTypes
  <2>3. \A s \in VideoSettings : AppApplies(s) => s \in HandlerApplies
    BY DEF AppApplies, HandlerApplies, VideoSettings
  <2>4. VideoApplied'
    BY <1>0, <1>1, <1>t, <2>3 DEF NewVideoSink, SinkTypes, VideoApplied, AppApplies, VideoSettings
  <2> QED
    BY <2>1, <2>2, <2>4 DEF SinkIInv
<1>2. ASSUME NEW s \in VideoSettings, NEW v \in Values, SetVideo(s, v) PROVE SinkIInv'
  <2>1. SinkTypes'
    BY <1>0, <1>2 DEF SetVideo, SinkTypes
  <2>2. VolumeDecided'
    BY <1>0, <1>2, <2>1, <1>t, VolumeQuiet DEF SetVideo, SinkTypes
  <2>3. /\ at'["app"] = s /\ at["app"] = "idle" /\ at'["handler"] = at["handler"]
        /\ \A r \in VideoSettings : r # s => setting'[r] = setting[r]
        /\ overlapped \subseteq overlapped' /\ (s \in toApply => s \in overlapped')
        /\ UNCHANGED <<sinks, sinkType, enableRect, videoSink, toApply, held>>
    BY <1>0, <1>2, <1>t DEF SetVideo, SinkTypes
  <2>4. "idle" \notin VideoSettings
    BY DEF VideoSettings
  <2>5. VideoApplied'
    BY <1>0, <2>3, <2>4 DEF VideoApplied, AppApplies
  <2> QED
    BY <2>1, <2>2, <2>5 DEF SinkIInv
<1>3. ASSUME NEW s \in VideoSettings, ApplyVideo(s) PROVE SinkIInv'
  <2>1. SinkTypes'
    BY <1>0, <1>3 DEF ApplyVideo, SinkTypes
  <2>2. VolumeDecided'
    BY <1>0, <1>3, <2>1, <1>t, VolumeQuiet DEF ApplyVideo, SinkTypes
  <2>3. VideoApplied'
    BY <1>0, <1>3, <1>t DEF ApplyVideo, SinkTypes, VideoApplied, AppApplies
  <2> QED
    BY <2>1, <2>2, <2>3 DEF SinkIInv
<1>4. ASSUME NEW s \in VideoSettings, HandlerReads(s) PROVE SinkIInv'
  <2>1. SinkTypes'
    BY <1>0, <1>4 DEF HandlerReads, SinkTypes
  <2>2. VolumeDecided'
    BY <1>0, <1>4, <2>1, <1>t, VolumeQuiet DEF HandlerReads, SinkTypes
  <2>3. VideoApplied'
    BY <1>0, <1>4, <1>t DEF HandlerReads, SinkTypes, VideoApplied, AppApplies
  <2> QED
    BY <2>1, <2>2, <2>3 DEF SinkIInv
<1>5. ASSUME NEW s \in VideoSettings, HandlerSets(s) PROVE SinkIInv'
  <2>1. SinkTypes'
    BY <1>0, <1>5 DEF HandlerSets, SinkTypes, Values
  <2>2. VolumeDecided'
    BY <1>0, <1>5, <2>1, <1>t, VolumeQuiet DEF HandlerSets, SinkTypes
  <2>3. VideoApplied'
    BY <1>0, <1>5, <1>t DEF HandlerSets, SinkTypes, VideoApplied, AppApplies, VideoSettings
  <2> QED
    BY <2>1, <2>2, <2>3 DEF SinkIInv
<1> QED
  BY <1>1, <1>2, <1>3, <1>4, <1>5 DEF VideoNext

LEMMA StopKeepsSinks ==
  ASSUME SinkIInv, StopPlayback \/ UNCHANGED sinkVars
  PROVE  SinkIInv'
<1>0. SinkTypes /\ VolumeDecided /\ VideoApplied
  BY DEF SinkIInv
<1>1. CASE StopPlayback
  <2>1. SinkTypes'
    BY <1>0, <1>1 DEF StopPlayback, SinkTypes, Values, sinkConfig
  <2>2. VolumeDecided' /\ VideoApplied'
    BY <1>0, <1>1 DEF StopPlayback, SinkTypes, VolumeDecided, VideoApplied, Nobody, sinkConfig
  <2> QED
    BY <2>1, <2>2 DEF SinkIInv
<1>2. CASE UNCHANGED sinkVars
  BY <1>2 DEF sinkVars, sinkConfig, videoVars, audioVars, volumeVars, SinkIInv, SinkTypes, VolumeDecided,
     VideoApplied, Nobody, AudioQuiet, AppApplies
<1> QED
  BY <1>1, <1>2

(* However the application, bus_sync_handler, new sinks and Stop interleave, *)
(* and for every set of volumes: when nobody is at the volume, the sink has  *)
(* it and is muted at volume 0; and what is stored for the video is in       *)
(* effect, unless it was set while bus_sync_handler was about to apply it    *)
(* (InterfacePlayerRDK.cpp:2680-2712, 4425-4571 and 4674-4702).              *)
THEOREM SinksAreAsSet == SinkSpec => []SettingsReachSinks
<1>1. ASSUME SinkIInv PROVE SettingsReachSinks
  <2>1. audioSink.mute \in BOOLEAN
    BY <1>1 DEF SinkIInv, SinkTypes
  <2>2. (audioSink.mute <=> audioVolume = 0) => audioSink.mute = (audioVolume = 0)
    BY <2>1
  <2>3. ASSUME AudioQuiet, "audio" \in sinks
        PROVE  /\ hasMute => audioSink.mute = (audioVolume = 0)
               /\ ~hasMute \/ audioVolume # 0 => audioSink.volume = audioVolume
    <3>1. Nobody("lock")
      BY <2>3 DEF AudioQuiet, Nobody
    <3> QED
      BY <1>1, <2>2, <2>3, <3>1 DEF SinkIInv, VolumeDecided
  <2>4. ASSUME "video" \in sinks, at["handler"] \notin {"video"} \union VideoSettings,
               NEW s \in VideoSettings, AppApplies(s), at["app"] # s, s \notin overlapped
        PROVE  videoSink[s] = setting[s]
    BY <1>1, <2>4 DEF SinkIInv, VideoApplied
  <2> QED
    BY <2>3, <2>4 DEF SettingsReachSinks
<1>2. SinkIInv /\ [SinkNext]_sinkVars => SinkIInv'
  BY AudioKeeps, VideoKeeps, StopKeepsSinks DEF SinkNext
<1> QED
  BY <1>1, <1>2, SinkInitially, PTL DEF SinkSpec

-----------------------------------------------------------------------------
(* The state that playback is asked for.                                    *)

PipelineTypes ==
  /\ media \in {"dash", "hls"} /\ buffersFirst \in BOOLEAN
  /\ pipeline \in BOOLEAN /\ paused \in BOOLEAN
  /\ buffering_in_progress \in BOOLEAN /\ pendingPlayState \in BOOLEAN
  /\ raced \in BOOLEAN
  /\ caller \in {"idle", "configure", "setState", "pause", "pauseEnds", "flush", "stop"}
  /\ wish \in {"PAUSED", "PLAYING", "buffer"}
  /\ loop \in {"idle", "set", "finish", "ptsClear"}
  /\ injector \in {"idle", "play"}

Wanted == IF paused THEN "PAUSED" ELSE "PLAYING"

\* While the application decides nobody else does, and what it decided is not undone.
DecisionStands ==
  /\ AppDecides => ~Deciding /\ pipeline
  /\ caller = "configure" => ~buffering_in_progress
  /\ caller = "setState" =>
       /\ wish = "PAUSED" => paused
       /\ buffering_in_progress <=> wish = "buffer"
       /\ buffering_in_progress => buffering_target_state = "PLAYING"
  /\ caller \in {"pause", "pauseEnds"} => wish \in {"PAUSED", "PLAYING"}
  /\ caller = "pauseEnds" => target = wish

\* Playback that is started at the end of the stream was not paused.
PlayIsPending ==
  /\ pendingPlayState => ~paused
  /\ injector = "play" => pendingPlayState

\* Otherwise the pipeline is in the state that is wanted, or buffering will set it.
BufferingSetsWanted ==
  /\ ~pipeline => ~buffering_in_progress
  /\ ~AppDecides /\ pipeline =>
       /\ buffering_in_progress => buffering_target_state = Wanted
       /\ loop = "set" => loopTarget = Wanted
       /\ loop = "finish" => target = Wanted
       /\ loop \in {"set", "finish"} => buffering_in_progress
       /\ paused \/ ~buffering_in_progress => target = Wanted

PipelineIInv ==
  /\ PipelineTypes
  /\ ~raced /\ media = "dash" => DecisionStands /\ PlayIsPending /\ BufferingSetsWanted

LEMMA PipelineInitially == PipelineInit => PipelineIInv
<1> SUFFICES ASSUME PipelineInit PROVE PipelineIInv
  OBVIOUS
<1>1. PipelineTypes
  BY DEF PipelineInit, PipelineTypes
<1>2. DecisionStands /\ PlayIsPending /\ BufferingSetsWanted
  BY DEF PipelineInit, DecisionStands, PlayIsPending, BufferingSetsWanted, AppDecides, Deciding
<1> QED
  BY <1>1, <1>2 DEF PipelineIInv

LEMMA ApplicationKeeps ==
  ASSUME PipelineIInv,
         \/ ConfigureBegins
         \/ \E onStart \in BOOLEAN : ConfigureDecides(onStart)
         \/ ConfigureEnds
         \/ \E p \in BOOLEAN : Pause(p)
         \/ \E force \in BOOLEAN : PauseSets(force)
         \/ PauseEnds
  PROVE  PipelineIInv'
<1> USE DEF configVars, gstVars, bufferingVars, tickVars, playVars, streamVars, ptsTimerVars,
       ptsVars, appVars, loopVars
<1>1. CASE ConfigureBegins
  <2>1. PipelineTypes'
    BY <1>1 DEF ConfigureBegins, Calls, PlayGoes, PipelineIInv, PipelineTypes
  <2>2. ASSUME ~raced', media' = "dash" PROVE ~raced /\ media = "dash"
    BY <1>1, <2>2 DEF ConfigureBegins, Calls, PlayGoes
  <2>3. ASSUME ~raced', media' = "dash" PROVE (DecisionStands /\ PlayIsPending /\ BufferingSetsWanted)'
    <3>1. /\ PipelineTypes /\ DecisionStands /\ PlayIsPending /\ BufferingSetsWanted
          /\ ~raced' /\ media = "dash"
      BY <2>2, <2>3 DEF PipelineIInv
    <3>2. DecisionStands'
      BY <1>1, <3>1 DEF ConfigureBegins, Calls, PlayGoes, PipelineTypes,
         DecisionStands, PlayIsPending, BufferingSetsWanted, Wanted, AppDecides, Deciding
    <3>3. PlayIsPending'
      BY <1>1, <3>1 DEF ConfigureBegins, Calls, PlayGoes, PipelineTypes,
         DecisionStands, PlayIsPending, BufferingSetsWanted, Wanted, AppDecides, Deciding
    <3>4. BufferingSetsWanted'
      BY <1>1, <3>1 DEF ConfigureBegins, Calls, PlayGoes, PipelineTypes,
         DecisionStands, PlayIsPending, BufferingSetsWanted, Wanted, AppDecides, Deciding
    <3> QED
      BY <3>2, <3>3, <3>4
  <2> QED
    BY <2>1, <2>3 DEF PipelineIInv
<1>2. CASE \E onStart \in BOOLEAN : ConfigureDecides(onStart)
  <2>1. PipelineTypes'
    BY <1>2 DEF ConfigureDecides, PlayGoes, PipelineIInv, PipelineTypes
  <2>2. ASSUME ~raced', media' = "dash" PROVE ~raced /\ media = "dash"
    BY <1>2, <2>2 DEF ConfigureDecides, PlayGoes
  <2>3. ASSUME ~raced', media' = "dash" PROVE (DecisionStands /\ PlayIsPending /\ BufferingSetsWanted)'
    <3>1. /\ PipelineTypes /\ DecisionStands /\ PlayIsPending /\ BufferingSetsWanted
          /\ ~raced' /\ media = "dash"
      BY <2>2, <2>3 DEF PipelineIInv
    <3>2. DecisionStands'
      BY <1>2, <3>1 DEF ConfigureDecides, PlayGoes, PipelineTypes,
         DecisionStands, PlayIsPending, BufferingSetsWanted, Wanted, AppDecides, Deciding
    <3>3. PlayIsPending'
      BY <1>2, <3>1 DEF ConfigureDecides, PlayGoes, PipelineTypes,
         DecisionStands, PlayIsPending, BufferingSetsWanted, Wanted, AppDecides, Deciding
    <3>4. BufferingSetsWanted'
      BY <1>2, <3>1 DEF ConfigureDecides, PlayGoes, PipelineTypes,
         DecisionStands, PlayIsPending, BufferingSetsWanted, Wanted, AppDecides, Deciding
    <3> QED
      BY <3>2, <3>3, <3>4
  <2> QED
    BY <2>1, <2>3 DEF PipelineIInv
<1>3. CASE ConfigureEnds
  <2>1. PipelineTypes'
    BY <1>3 DEF ConfigureEnds, SetState, PlayGoes, PipelineIInv, PipelineTypes
  <2>2. ASSUME ~raced', media' = "dash" PROVE ~raced /\ media = "dash"
    BY <1>3, <2>2 DEF ConfigureEnds, SetState, PlayGoes
  <2>3. ASSUME ~raced', media' = "dash" PROVE (DecisionStands /\ PlayIsPending /\ BufferingSetsWanted)'
    <3>1. /\ PipelineTypes /\ DecisionStands /\ PlayIsPending /\ BufferingSetsWanted
          /\ ~raced' /\ media = "dash"
      BY <2>2, <2>3 DEF PipelineIInv
    <3>2. DecisionStands'
      BY <1>3, <3>1 DEF ConfigureEnds, SetState, PlayGoes, PipelineTypes,
         DecisionStands, PlayIsPending, BufferingSetsWanted, Wanted, AppDecides, Deciding
    <3>3. PlayIsPending'
      BY <1>3, <3>1 DEF ConfigureEnds, SetState, PlayGoes, PipelineTypes,
         DecisionStands, PlayIsPending, BufferingSetsWanted, Wanted, AppDecides, Deciding
    <3>4. BufferingSetsWanted'
      BY <1>3, <3>1 DEF ConfigureEnds, SetState, PlayGoes, PipelineTypes,
         DecisionStands, PlayIsPending, BufferingSetsWanted, Wanted, AppDecides, Deciding
    <3> QED
      BY <3>2, <3>3, <3>4
  <2> QED
    BY <2>1, <2>3 DEF PipelineIInv
<1>4. CASE \E p \in BOOLEAN : Pause(p)
  <2>1. PipelineTypes'
    BY <1>4 DEF Pause, Calls, PlayGoes, PipelineIInv, PipelineTypes
  <2>2. ASSUME ~raced', media' = "dash" PROVE ~raced /\ media = "dash"
    BY <1>4, <2>2 DEF Pause, Calls, PlayGoes
  <2>3. ASSUME ~raced', media' = "dash" PROVE (DecisionStands /\ PlayIsPending /\ BufferingSetsWanted)'
    <3>1. /\ PipelineTypes /\ DecisionStands /\ PlayIsPending /\ BufferingSetsWanted
          /\ ~raced' /\ media = "dash"
      BY <2>2, <2>3 DEF PipelineIInv
    <3>2. DecisionStands'
      BY <1>4, <3>1 DEF Pause, Calls, PlayGoes, PipelineTypes,
         DecisionStands, PlayIsPending, BufferingSetsWanted, Wanted, AppDecides, Deciding
    <3>3. PlayIsPending'
      BY <1>4, <3>1 DEF Pause, Calls, PlayGoes, PipelineTypes,
         DecisionStands, PlayIsPending, BufferingSetsWanted, Wanted, AppDecides, Deciding
    <3>4. BufferingSetsWanted'
      BY <1>4, <3>1 DEF Pause, Calls, PlayGoes, PipelineTypes,
         DecisionStands, PlayIsPending, BufferingSetsWanted, Wanted, AppDecides, Deciding
    <3> QED
      BY <3>2, <3>3, <3>4
  <2> QED
    BY <2>1, <2>3 DEF PipelineIInv
<1>5. CASE \E force \in BOOLEAN : PauseSets(force)
  <2>1. PipelineTypes'
    BY <1>5 DEF PauseSets, SetState, PlayGoes, PipelineIInv, PipelineTypes
  <2>2. ASSUME ~raced', media' = "dash" PROVE ~raced /\ media = "dash"
    BY <1>5, <2>2 DEF PauseSets, SetState, PlayGoes
  <2>3. ASSUME ~raced', media' = "dash" PROVE (DecisionStands /\ PlayIsPending /\ BufferingSetsWanted)'
    <3>1. /\ PipelineTypes /\ DecisionStands /\ PlayIsPending /\ BufferingSetsWanted
          /\ ~raced' /\ media = "dash"
      BY <2>2, <2>3 DEF PipelineIInv
    <3>2. DecisionStands'
      BY <1>5, <3>1 DEF PauseSets, SetState, PlayGoes, PipelineTypes,
         DecisionStands, PlayIsPending, BufferingSetsWanted, Wanted, AppDecides, Deciding
    <3>3. PlayIsPending'
      BY <1>5, <3>1 DEF PauseSets, SetState, PlayGoes, PipelineTypes,
         DecisionStands, PlayIsPending, BufferingSetsWanted, Wanted, AppDecides, Deciding
    <3>4. BufferingSetsWanted'
      BY <1>5, <3>1 DEF PauseSets, SetState, PlayGoes, PipelineTypes,
         DecisionStands, PlayIsPending, BufferingSetsWanted, Wanted, AppDecides, Deciding
    <3> QED
      BY <3>2, <3>3, <3>4
  <2> QED
    BY <2>1, <2>3 DEF PipelineIInv
<1>6. CASE PauseEnds
  <2>1. PipelineTypes'
    BY <1>6 DEF PauseEnds, PlayGoes, PipelineIInv, PipelineTypes
  <2>2. ASSUME ~raced', media' = "dash" PROVE ~raced /\ media = "dash"
    BY <1>6, <2>2 DEF PauseEnds, PlayGoes
  <2>3. ASSUME ~raced', media' = "dash" PROVE (DecisionStands /\ PlayIsPending /\ BufferingSetsWanted)'
    <3>1. /\ PipelineTypes /\ DecisionStands /\ PlayIsPending /\ BufferingSetsWanted
          /\ ~raced' /\ media = "dash"
      BY <2>2, <2>3 DEF PipelineIInv
    <3>2. DecisionStands'
      BY <1>6, <3>1 DEF PauseEnds, PlayGoes, PipelineTypes,
         DecisionStands, PlayIsPending, BufferingSetsWanted, Wanted, AppDecides, Deciding
    <3>3. PlayIsPending'
      BY <1>6, <3>1 DEF PauseEnds, PlayGoes, PipelineTypes,
         DecisionStands, PlayIsPending, BufferingSetsWanted, Wanted, AppDecides, Deciding
    <3>4. BufferingSetsWanted'
      BY <1>6, <3>1 DEF PauseEnds, PlayGoes, PipelineTypes,
         DecisionStands, PlayIsPending, BufferingSetsWanted, Wanted, AppDecides, Deciding
    <3> QED
      BY <3>2, <3>3, <3>4
  <2> QED
    BY <2>1, <2>3 DEF PipelineIInv
<1> QED
  BY <1>1, <1>2, <1>3, <1>4, <1>5, <1>6

LEMMA FlushStopKeeps ==
  ASSUME PipelineIInv,
         \/ FlushBegins
         \/ FlushNothing
         \/ \E ok \in BOOLEAN : FlushSeeks(ok)
         \/ PipelineStopBegins
         \/ StopEnds
         \/ EnablePendingPlayState
         \/ IsCacheEmpty
  PROVE  PipelineIInv'
<1> USE DEF configVars, gstVars, bufferingVars, tickVars, playVars, streamVars, ptsTimerVars,
       ptsVars, appVars, loopVars
<1>1. CASE FlushBegins
  <2>1. PipelineTypes'
    BY <1>1 DEF FlushBegins, Calls, RemovesTimers, PlayGoes, PipelineIInv, PipelineTypes
  <2>2. ASSUME ~raced', media' = "dash" PROVE ~raced /\ media = "dash"
    BY <1>1, <2>2 DEF FlushBegins, Calls, RemovesTimers, PlayGoes
  <2>3. ASSUME ~raced', media' = "dash" PROVE (DecisionStands /\ PlayIsPending /\ BufferingSetsWanted)'
    <3>1. /\ PipelineTypes /\ DecisionStands /\ PlayIsPending /\ BufferingSetsWanted
          /\ ~raced' /\ media = "dash"
      BY <2>2, <2>3 DEF PipelineIInv
    <3>2. DecisionStands'
      BY <1>1, <3>1 DEF FlushBegins, Calls, RemovesTimers, PlayGoes, PipelineTypes,
         DecisionStands, PlayIsPending, BufferingSetsWanted, Wanted, AppDecides, Deciding
    <3>3. PlayIsPending'
      BY <1>1, <3>1 DEF FlushBegins, Calls, RemovesTimers, PlayGoes, PipelineTypes,
         DecisionStands, PlayIsPending, BufferingSetsWanted, Wanted, AppDecides, Deciding
    <3>4. BufferingSetsWanted'
      BY <1>1, <3>1 DEF FlushBegins, Calls, RemovesTimers, PlayGoes, PipelineTypes,
         DecisionStands, PlayIsPending, BufferingSetsWanted, Wanted, AppDecides, Deciding
    <3> QED
      BY <3>2, <3>3, <3>4
  <2> QED
    BY <2>1, <2>3 DEF PipelineIInv
<1>2. CASE FlushNothing
  <2>1. PipelineTypes'
    BY <1>2 DEF FlushNothing, PlayGoes, PipelineIInv, PipelineTypes
  <2>2. ASSUME ~raced', media' = "dash" PROVE ~raced /\ media = "dash"
    BY <1>2, <2>2 DEF FlushNothing, PlayGoes
  <2>3. ASSUME ~raced', media' = "dash" PROVE (DecisionStands /\ PlayIsPending /\ BufferingSetsWanted)'
    <3>1. /\ PipelineTypes /\ DecisionStands /\ PlayIsPending /\ BufferingSetsWanted
          /\ ~raced' /\ media = "dash"
      BY <2>2, <2>3 DEF PipelineIInv
    <3>2. DecisionStands'
      BY <1>2, <3>1 DEF FlushNothing, PlayGoes, PipelineTypes,
         DecisionStands, PlayIsPending, BufferingSetsWanted, Wanted, AppDecides, Deciding
    <3>3. PlayIsPending'
      BY <1>2, <3>1 DEF FlushNothing, PlayGoes, PipelineTypes,
         DecisionStands, PlayIsPending, BufferingSetsWanted, Wanted, AppDecides, Deciding
    <3>4. BufferingSetsWanted'
      BY <1>2, <3>1 DEF FlushNothing, PlayGoes, PipelineTypes,
         DecisionStands, PlayIsPending, BufferingSetsWanted, Wanted, AppDecides, Deciding
    <3> QED
      BY <3>2, <3>3, <3>4
  <2> QED
    BY <2>1, <2>3 DEF PipelineIInv
<1>3. CASE \E ok \in BOOLEAN : FlushSeeks(ok)
  <2>1. PipelineTypes'
    BY <1>3 DEF FlushSeeks, PlayGoes, PipelineIInv, PipelineTypes
  <2>2. ASSUME ~raced', media' = "dash" PROVE ~raced /\ media = "dash"
    BY <1>3, <2>2 DEF FlushSeeks, PlayGoes
  <2>3. ASSUME ~raced', media' = "dash" PROVE (DecisionStands /\ PlayIsPending /\ BufferingSetsWanted)'
    <3>1. /\ PipelineTypes /\ DecisionStands /\ PlayIsPending /\ BufferingSetsWanted
          /\ ~raced' /\ media = "dash"
      BY <2>2, <2>3 DEF PipelineIInv
    <3>2. DecisionStands'
      BY <1>3, <3>1 DEF FlushSeeks, PlayGoes, PipelineTypes,
         DecisionStands, PlayIsPending, BufferingSetsWanted, Wanted, AppDecides, Deciding
    <3>3. PlayIsPending'
      BY <1>3, <3>1 DEF FlushSeeks, PlayGoes, PipelineTypes,
         DecisionStands, PlayIsPending, BufferingSetsWanted, Wanted, AppDecides, Deciding
    <3>4. BufferingSetsWanted'
      BY <1>3, <3>1 DEF FlushSeeks, PlayGoes, PipelineTypes,
         DecisionStands, PlayIsPending, BufferingSetsWanted, Wanted, AppDecides, Deciding
    <3> QED
      BY <3>2, <3>3, <3>4
  <2> QED
    BY <2>1, <2>3 DEF PipelineIInv
<1>4. CASE PipelineStopBegins
  <2>1. PipelineTypes'
    BY <1>4 DEF PipelineStopBegins, Calls, RemovesTimers, PlayGoes, PipelineIInv, PipelineTypes
  <2>2. ASSUME ~raced', media' = "dash" PROVE ~raced /\ media = "dash"
    BY <1>4, <2>2 DEF PipelineStopBegins, Calls, RemovesTimers, PlayGoes
  <2>3. ASSUME ~raced', media' = "dash" PROVE (DecisionStands /\ PlayIsPending /\ BufferingSetsWanted)'
    <3>1. /\ PipelineTypes /\ DecisionStands /\ PlayIsPending /\ BufferingSetsWanted
          /\ ~raced' /\ media = "dash"
      BY <2>2, <2>3 DEF PipelineIInv
    <3>2. DecisionStands'
      BY <1>4, <3>1 DEF PipelineStopBegins, Calls, RemovesTimers, PlayGoes, PipelineTypes,
         DecisionStands, PlayIsPending, BufferingSetsWanted, Wanted, AppDecides, Deciding
    <3>3. PlayIsPending'
      BY <1>4, <3>1 DEF PipelineStopBegins, Calls, RemovesTimers, PlayGoes, PipelineTypes,
         DecisionStands, PlayIsPending, BufferingSetsWanted, Wanted, AppDecides, Deciding
    <3>4. BufferingSetsWanted'
      BY <1>4, <3>1 DEF PipelineStopBegins, Calls, RemovesTimers, PlayGoes, PipelineTypes,
         DecisionStands, PlayIsPending, BufferingSetsWanted, Wanted, AppDecides, Deciding
    <3> QED
      BY <3>2, <3>3, <3>4
  <2> QED
    BY <2>1, <2>3 DEF PipelineIInv
<1>5. CASE StopEnds
  <2>1. PipelineTypes'
    BY <1>5 DEF StopEnds, SetState, PlayGoes, PipelineIInv, PipelineTypes
  <2>2. ASSUME ~raced', media' = "dash" PROVE ~raced /\ media = "dash"
    BY <1>5, <2>2 DEF StopEnds, SetState, PlayGoes
  <2>3. ASSUME ~raced', media' = "dash" PROVE (DecisionStands /\ PlayIsPending /\ BufferingSetsWanted)'
    <3>1. /\ PipelineTypes /\ DecisionStands /\ PlayIsPending /\ BufferingSetsWanted
          /\ ~raced' /\ media = "dash"
      BY <2>2, <2>3 DEF PipelineIInv
    <3>2. DecisionStands'
      BY <1>5, <3>1 DEF StopEnds, SetState, PlayGoes, PipelineTypes,
         DecisionStands, PlayIsPending, BufferingSetsWanted, Wanted, AppDecides, Deciding
    <3>3. PlayIsPending'
      BY <1>5, <3>1 DEF StopEnds, SetState, PlayGoes, PipelineTypes,
         DecisionStands, PlayIsPending, BufferingSetsWanted, Wanted, AppDecides, Deciding
    <3>4. BufferingSetsWanted'
      BY <1>5, <3>1 DEF StopEnds, SetState, PlayGoes, PipelineTypes,
         DecisionStands, PlayIsPending, BufferingSetsWanted, Wanted, AppDecides, Deciding
    <3> QED
      BY <3>2, <3>3, <3>4
  <2> QED
    BY <2>1, <2>3 DEF PipelineIInv
<1>6. CASE EnablePendingPlayState
  <2>1. PipelineTypes'
    BY <1>6 DEF EnablePendingPlayState, Calls, PlayGoes, PipelineIInv, PipelineTypes
  <2>2. ASSUME ~raced', media' = "dash" PROVE ~raced /\ media = "dash"
    BY <1>6, <2>2 DEF EnablePendingPlayState, Calls, PlayGoes
  <2>3. ASSUME ~raced', media' = "dash" PROVE (DecisionStands /\ PlayIsPending /\ BufferingSetsWanted)'
    <3>1. /\ PipelineTypes /\ DecisionStands /\ PlayIsPending /\ BufferingSetsWanted
          /\ ~raced' /\ media = "dash"
      BY <2>2, <2>3 DEF PipelineIInv
    <3>2. DecisionStands'
      BY <1>6, <3>1 DEF EnablePendingPlayState, Calls, PlayGoes, PipelineTypes,
         DecisionStands, PlayIsPending, BufferingSetsWanted, Wanted, AppDecides, Deciding
    <3>3. PlayIsPending'
      BY <1>6, <3>1 DEF EnablePendingPlayState, Calls, PlayGoes, PipelineTypes,
         DecisionStands, PlayIsPending, BufferingSetsWanted, Wanted, AppDecides, Deciding
    <3>4. BufferingSetsWanted'
      BY <1>6, <3>1 DEF EnablePendingPlayState, Calls, PlayGoes, PipelineTypes,
         DecisionStands, PlayIsPending, BufferingSetsWanted, Wanted, AppDecides, Deciding
    <3> QED
      BY <3>2, <3>3, <3>4
  <2> QED
    BY <2>1, <2>3 DEF PipelineIInv
<1>7. CASE IsCacheEmpty
  <2>1. PipelineTypes'
    BY <1>7 DEF IsCacheEmpty, PipelineIInv, PipelineTypes
  <2>2. ASSUME ~raced', media' = "dash" PROVE ~raced /\ media = "dash"
    BY <1>7, <2>2 DEF IsCacheEmpty
  <2>3. ASSUME ~raced', media' = "dash" PROVE (DecisionStands /\ PlayIsPending /\ BufferingSetsWanted)'
    <3>1. /\ PipelineTypes /\ DecisionStands /\ PlayIsPending /\ BufferingSetsWanted
          /\ ~raced' /\ media = "dash"
      BY <2>2, <2>3 DEF PipelineIInv
    <3>2. DecisionStands'
      BY <1>7, <3>1 DEF IsCacheEmpty, PipelineTypes,
         DecisionStands, PlayIsPending, BufferingSetsWanted, Wanted, AppDecides, Deciding
    <3>3. PlayIsPending'
      BY <1>7, <3>1 DEF IsCacheEmpty, PipelineTypes,
         DecisionStands, PlayIsPending, BufferingSetsWanted, Wanted, AppDecides, Deciding
    <3>4. BufferingSetsWanted'
      BY <1>7, <3>1 DEF IsCacheEmpty, PipelineTypes,
         DecisionStands, PlayIsPending, BufferingSetsWanted, Wanted, AppDecides, Deciding
    <3> QED
      BY <3>2, <3>3, <3>4
  <2> QED
    BY <2>1, <2>3 DEF PipelineIInv
<1> QED
  BY <1>1, <1>2, <1>3, <1>4, <1>5, <1>6, <1>7

LEMMA StreamKeeps ==
  ASSUME PipelineIInv,
         \/ Push
         \/ EndOfStreamReached
         \/ NotifyFragmentCachingComplete
         \/ Preroll
         \/ AsyncDone
         \/ AddsTimer
         \/ PtsMoves
         \/ \E d \in Decoders : Underflow(d) \/ UnderflowArms(d)
  PROVE  PipelineIInv'
<1> USE DEF configVars, gstVars, bufferingVars, tickVars, playVars, streamVars, ptsTimerVars,
       ptsVars, appVars, loopVars
<1>1. CASE Push
  <2>1. PipelineTypes'
    BY <1>1 DEF Push, PipelineIInv, PipelineTypes
  <2>2. ASSUME ~raced', media' = "dash" PROVE ~raced /\ media = "dash"
    BY <1>1, <2>2 DEF Push
  <2>3. ASSUME ~raced', media' = "dash" PROVE (DecisionStands /\ PlayIsPending /\ BufferingSetsWanted)'
    <3>1. /\ PipelineTypes /\ DecisionStands /\ PlayIsPending /\ BufferingSetsWanted
          /\ ~raced' /\ media = "dash"
      BY <2>2, <2>3 DEF PipelineIInv
    <3>2. DecisionStands'
      BY <1>1, <3>1 DEF Push, PipelineTypes,
         DecisionStands, PlayIsPending, BufferingSetsWanted, Wanted, AppDecides, Deciding
    <3>3. PlayIsPending'
      BY <1>1, <3>1 DEF Push, PipelineTypes,
         DecisionStands, PlayIsPending, BufferingSetsWanted, Wanted, AppDecides, Deciding
    <3>4. BufferingSetsWanted'
      BY <1>1, <3>1 DEF Push, PipelineTypes,
         DecisionStands, PlayIsPending, BufferingSetsWanted, Wanted, AppDecides, Deciding
    <3> QED
      BY <3>2, <3>3, <3>4
  <2> QED
    BY <2>1, <2>3 DEF PipelineIInv
<1>2. CASE EndOfStreamReached
  <2>1. PipelineTypes'
    BY <1>2 DEF EndOfStreamReached, PipelineIInv, PipelineTypes
  <2>2. ASSUME ~raced', media' = "dash" PROVE ~raced /\ media = "dash"
    BY <1>2, <2>2 DEF EndOfStreamReached
  <2>3. ASSUME ~raced', media' = "dash" PROVE (DecisionStands /\ PlayIsPending /\ BufferingSetsWanted)'
    <3>1. /\ PipelineTypes /\ DecisionStands /\ PlayIsPending /\ BufferingSetsWanted
          /\ ~raced' /\ media = "dash"
      BY <2>2, <2>3 DEF PipelineIInv
    <3>2. DecisionStands'
      BY <1>2, <3>1 DEF EndOfStreamReached, PipelineTypes,
         DecisionStands, PlayIsPending, BufferingSetsWanted, Wanted, AppDecides, Deciding
    <3>3. PlayIsPending'
      BY <1>2, <3>1 DEF EndOfStreamReached, PipelineTypes,
         DecisionStands, PlayIsPending, BufferingSetsWanted, Wanted, AppDecides, Deciding
    <3>4. BufferingSetsWanted'
      BY <1>2, <3>1 DEF EndOfStreamReached, PipelineTypes,
         DecisionStands, PlayIsPending, BufferingSetsWanted, Wanted, AppDecides, Deciding
    <3> QED
      BY <3>2, <3>3, <3>4
  <2> QED
    BY <2>1, <2>3 DEF PipelineIInv
<1>3. CASE NotifyFragmentCachingComplete
  <2>1. PipelineTypes'
    <3>1. injector' = "idle" /\ pendingPlayState' = FALSE
          /\ UNCHANGED <<media, buffersFirst, pipeline, paused, buffering_in_progress, raced,
                         caller, wish, loop>>
      BY <1>3 DEF NotifyFragmentCachingComplete, configVars, bufferingVars, appVars, loopVars
    <3>2. PipelineTypes
      BY DEF PipelineIInv
    <3>3. /\ media' \in {"dash", "hls"} /\ buffersFirst' \in BOOLEAN
          /\ pipeline' \in BOOLEAN /\ paused' \in BOOLEAN
          /\ buffering_in_progress' \in BOOLEAN /\ pendingPlayState' \in BOOLEAN
          /\ raced' \in BOOLEAN
      BY <3>1, <3>2 DEF PipelineTypes
    <3>4. caller' = caller /\ wish' = wish /\ loop' = loop /\ injector' = "idle"
      BY <3>1
    <3> QED
      BY <3>2, <3>3, <3>4 DEF PipelineTypes
  <2>2. ASSUME ~raced', media' = "dash" PROVE ~raced /\ media = "dash"
    BY <1>3, <2>2 DEF NotifyFragmentCachingComplete, SetState
  <2>3. ASSUME ~raced', media' = "dash" PROVE (DecisionStands /\ PlayIsPending /\ BufferingSetsWanted)'
    <3>1. /\ PipelineTypes /\ DecisionStands /\ PlayIsPending /\ BufferingSetsWanted
          /\ ~raced' /\ media = "dash"
      BY <2>2, <2>3 DEF PipelineIInv
    <3>2. DecisionStands'
      BY <1>3, <3>1 DEF NotifyFragmentCachingComplete, SetState, PipelineTypes,
         DecisionStands, PlayIsPending, BufferingSetsWanted, Wanted, AppDecides, Deciding
    <3>3. PlayIsPending'
      BY <1>3, <3>1 DEF NotifyFragmentCachingComplete, SetState, PipelineTypes,
         DecisionStands, PlayIsPending, BufferingSetsWanted, Wanted, AppDecides, Deciding
    <3>4. BufferingSetsWanted'
      BY <1>3, <3>1 DEF NotifyFragmentCachingComplete, SetState, PipelineTypes,
         DecisionStands, PlayIsPending, BufferingSetsWanted, Wanted, AppDecides, Deciding
    <3> QED
      BY <3>2, <3>3, <3>4
  <2> QED
    BY <2>1, <2>3 DEF PipelineIInv
<1>4. CASE Preroll
  <2>1. PipelineTypes'
    BY <1>4 DEF Preroll, PipelineIInv, PipelineTypes
  <2>2. ASSUME ~raced', media' = "dash" PROVE ~raced /\ media = "dash"
    BY <1>4, <2>2 DEF Preroll
  <2>3. ASSUME ~raced', media' = "dash" PROVE (DecisionStands /\ PlayIsPending /\ BufferingSetsWanted)'
    <3>1. /\ PipelineTypes /\ DecisionStands /\ PlayIsPending /\ BufferingSetsWanted
          /\ ~raced' /\ media = "dash"
      BY <2>2, <2>3 DEF PipelineIInv
    <3>2. DecisionStands'
      BY <1>4, <3>1 DEF Preroll, PipelineTypes,
         DecisionStands, PlayIsPending, BufferingSetsWanted, Wanted, AppDecides, Deciding
    <3>3. PlayIsPending'
      BY <1>4, <3>1 DEF Preroll, PipelineTypes,
         DecisionStands, PlayIsPending, BufferingSetsWanted, Wanted, AppDecides, Deciding
    <3>4. BufferingSetsWanted'
      BY <1>4, <3>1 DEF Preroll, PipelineTypes,
         DecisionStands, PlayIsPending, BufferingSetsWanted, Wanted, AppDecides, Deciding
    <3> QED
      BY <3>2, <3>3, <3>4
  <2> QED
    BY <2>1, <2>3 DEF PipelineIInv
<1>5. CASE AsyncDone
  <2>1. PipelineTypes'
    BY <1>5 DEF AsyncDone, PipelineIInv, PipelineTypes
  <2>2. ASSUME ~raced', media' = "dash" PROVE ~raced /\ media = "dash"
    BY <1>5, <2>2 DEF AsyncDone
  <2>3. ASSUME ~raced', media' = "dash" PROVE (DecisionStands /\ PlayIsPending /\ BufferingSetsWanted)'
    <3>1. /\ PipelineTypes /\ DecisionStands /\ PlayIsPending /\ BufferingSetsWanted
          /\ ~raced' /\ media = "dash"
      BY <2>2, <2>3 DEF PipelineIInv
    <3>2. DecisionStands'
      BY <1>5, <3>1 DEF AsyncDone, PipelineTypes,
         DecisionStands, PlayIsPending, BufferingSetsWanted, Wanted, AppDecides, Deciding
    <3>3. PlayIsPending'
      BY <1>5, <3>1 DEF AsyncDone, PipelineTypes,
         DecisionStands, PlayIsPending, BufferingSetsWanted, Wanted, AppDecides, Deciding
    <3>4. BufferingSetsWanted'
      BY <1>5, <3>1 DEF AsyncDone, PipelineTypes,
         DecisionStands, PlayIsPending, BufferingSetsWanted, Wanted, AppDecides, Deciding
    <3> QED
      BY <3>2, <3>3, <3>4
  <2> QED
    BY <2>1, <2>3 DEF PipelineIInv
<1>6. CASE AddsTimer
  <2>1. PipelineTypes'
    BY <1>6 DEF AddsTimer, PipelineIInv, PipelineTypes
  <2>2. ASSUME ~raced', media' = "dash" PROVE ~raced /\ media = "dash"
    BY <1>6, <2>2 DEF AddsTimer
  <2>3. ASSUME ~raced', media' = "dash" PROVE (DecisionStands /\ PlayIsPending /\ BufferingSetsWanted)'
    <3>1. /\ PipelineTypes /\ DecisionStands /\ PlayIsPending /\ BufferingSetsWanted
          /\ ~raced' /\ media = "dash"
      BY <2>2, <2>3 DEF PipelineIInv
    <3>2. DecisionStands'
      BY <1>6, <3>1 DEF AddsTimer, PipelineTypes,
         DecisionStands, PlayIsPending, BufferingSetsWanted, Wanted, AppDecides, Deciding
    <3>3. PlayIsPending'
      BY <1>6, <3>1 DEF AddsTimer, PipelineTypes,
         DecisionStands, PlayIsPending, BufferingSetsWanted, Wanted, AppDecides, Deciding
    <3>4. BufferingSetsWanted'
      BY <1>6, <3>1 DEF AddsTimer, PipelineTypes,
         DecisionStands, PlayIsPending, BufferingSetsWanted, Wanted, AppDecides, Deciding
    <3> QED
      BY <3>2, <3>3, <3>4
  <2> QED
    BY <2>1, <2>3 DEF PipelineIInv
<1>7. CASE PtsMoves
  <2>1. PipelineTypes'
    BY <1>7 DEF PtsMoves, PipelineIInv, PipelineTypes
  <2>2. ASSUME ~raced', media' = "dash" PROVE ~raced /\ media = "dash"
    BY <1>7, <2>2 DEF PtsMoves
  <2>3. ASSUME ~raced', media' = "dash" PROVE (DecisionStands /\ PlayIsPending /\ BufferingSetsWanted)'
    <3>1. /\ PipelineTypes /\ DecisionStands /\ PlayIsPending /\ BufferingSetsWanted
          /\ ~raced' /\ media = "dash"
      BY <2>2, <2>3 DEF PipelineIInv
    <3>2. DecisionStands'
      BY <1>7, <3>1 DEF PtsMoves, PipelineTypes,
         DecisionStands, PlayIsPending, BufferingSetsWanted, Wanted, AppDecides, Deciding
    <3>3. PlayIsPending'
      BY <1>7, <3>1 DEF PtsMoves, PipelineTypes,
         DecisionStands, PlayIsPending, BufferingSetsWanted, Wanted, AppDecides, Deciding
    <3>4. BufferingSetsWanted'
      BY <1>7, <3>1 DEF PtsMoves, PipelineTypes,
         DecisionStands, PlayIsPending, BufferingSetsWanted, Wanted, AppDecides, Deciding
    <3> QED
      BY <3>2, <3>3, <3>4
  <2> QED
    BY <2>1, <2>3 DEF PipelineIInv
<1>8. CASE \E d \in Decoders : Underflow(d) \/ UnderflowArms(d)
  <2>1. PipelineTypes'
    BY <1>8 DEF Underflow, UnderflowArms, PipelineIInv, PipelineTypes
  <2>2. ASSUME ~raced', media' = "dash" PROVE ~raced /\ media = "dash"
    BY <1>8, <2>2 DEF Underflow, UnderflowArms
  <2>3. ASSUME ~raced', media' = "dash" PROVE (DecisionStands /\ PlayIsPending /\ BufferingSetsWanted)'
    <3>1. /\ PipelineTypes /\ DecisionStands /\ PlayIsPending /\ BufferingSetsWanted
          /\ ~raced' /\ media = "dash"
      BY <2>2, <2>3 DEF PipelineIInv
    <3>2. DecisionStands'
      BY <1>8, <3>1 DEF Underflow, UnderflowArms, PipelineTypes,
         DecisionStands, PlayIsPending, BufferingSetsWanted, Wanted, AppDecides, Deciding
    <3>3. PlayIsPending'
      BY <1>8, <3>1 DEF Underflow, UnderflowArms, PipelineTypes,
         DecisionStands, PlayIsPending, BufferingSetsWanted, Wanted, AppDecides, Deciding
    <3>4. BufferingSetsWanted'
      BY <1>8, <3>1 DEF Underflow, UnderflowArms, PipelineTypes,
         DecisionStands, PlayIsPending, BufferingSetsWanted, Wanted, AppDecides, Deciding
    <3> QED
      BY <3>2, <3>3, <3>4
  <2> QED
    BY <2>1, <2>3 DEF PipelineIInv
<1> QED
  BY <1>1, <1>2, <1>3, <1>4, <1>5, <1>6, <1>7, <1>8

LEMMA LoopKeeps ==
  ASSUME PipelineIInv,
         \/ \E t \in Ids : TimeoutIdle(t)
         \/ \E t \in Ids : TimeoutRetunes(t)
         \/ \E t \in Ids : TimeoutWaits(t)
         \/ \E t \in Ids, enough \in BOOLEAN : TimeoutDecides(t, enough)
         \/ TimeoutSets
         \/ \E t \in Ids : TimeoutFinishes(t)
         \/ \E t \in Ids : PtsCheck(t)
         \/ PtsCheckEnds
         \/ ClockLost
         \/ UNCHANGED pipelineVars
  PROVE  PipelineIInv'
<1> USE DEF configVars, gstVars, bufferingVars, tickVars, playVars, streamVars, ptsTimerVars,
       ptsVars, appVars, loopVars
<1>1. CASE \E t \in Ids : TimeoutIdle(t)
  <2>1. PipelineTypes'
    BY <1>1 DEF TimeoutIdle, TimerEnds, PipelineIInv, PipelineTypes
  <2>2. ASSUME ~raced', media' = "dash" PROVE ~raced /\ media = "dash"
    BY <1>1, <2>2 DEF TimeoutIdle, TimerEnds
  <2>3. ASSUME ~raced', media' = "dash" PROVE (DecisionStands /\ PlayIsPending /\ BufferingSetsWanted)'
    <3>1. /\ PipelineTypes /\ DecisionStands /\ PlayIsPending /\ BufferingSetsWanted
          /\ ~raced' /\ media = "dash"
      BY <2>2, <2>3 DEF PipelineIInv
    <3>2. DecisionStands'
      BY <1>1, <3>1 DEF TimeoutIdle, TimerEnds, PipelineTypes,
         DecisionStands, PlayIsPending, BufferingSetsWanted, Wanted, AppDecides, Deciding
    <3>3. PlayIsPending'
      BY <1>1, <3>1 DEF TimeoutIdle, TimerEnds, PipelineTypes,
         DecisionStands, PlayIsPending, BufferingSetsWanted, Wanted, AppDecides, Deciding
    <3>4. BufferingSetsWanted'
      BY <1>1, <3>1 DEF TimeoutIdle, TimerEnds, PipelineTypes,
         DecisionStands, PlayIsPending, BufferingSetsWanted, Wanted, AppDecides, Deciding
    <3> QED
      BY <3>2, <3>3, <3>4
  <2> QED
    BY <2>1, <2>3 DEF PipelineIInv
<1>2. CASE \E t \in Ids : TimeoutRetunes(t)
  <2>1. PipelineTypes'
    BY <1>2 DEF TimeoutRetunes, TimerEnds, PipelineIInv, PipelineTypes
  <2>2. ASSUME ~raced', media' = "dash" PROVE ~raced /\ media = "dash"
    BY <1>2, <2>2 DEF TimeoutRetunes, TimerEnds
  <2>3. ASSUME ~raced', media' = "dash" PROVE (DecisionStands /\ PlayIsPending /\ BufferingSetsWanted)'
    <3>1. /\ PipelineTypes /\ DecisionStands /\ PlayIsPending /\ BufferingSetsWanted
          /\ ~raced' /\ media = "dash"
      BY <2>2, <2>3 DEF PipelineIInv
    <3>2. DecisionStands'
      BY <1>2, <3>1 DEF TimeoutRetunes, TimerEnds, PipelineTypes,
         DecisionStands, PlayIsPending, BufferingSetsWanted, Wanted, AppDecides, Deciding
    <3>3. PlayIsPending'
      BY <1>2, <3>1 DEF TimeoutRetunes, TimerEnds, PipelineTypes,
         DecisionStands, PlayIsPending, BufferingSetsWanted, Wanted, AppDecides, Deciding
    <3>4. BufferingSetsWanted'
      BY <1>2, <3>1 DEF TimeoutRetunes, TimerEnds, PipelineTypes,
         DecisionStands, PlayIsPending, BufferingSetsWanted, Wanted, AppDecides, Deciding
    <3> QED
      BY <3>2, <3>3, <3>4
  <2> QED
    BY <2>1, <2>3 DEF PipelineIInv
<1>3. CASE \E t \in Ids : TimeoutWaits(t)
  <2>1. PipelineTypes'
    BY <1>3 DEF TimeoutWaits, PipelineIInv, PipelineTypes
  <2>2. ASSUME ~raced', media' = "dash" PROVE ~raced /\ media = "dash"
    BY <1>3, <2>2 DEF TimeoutWaits
  <2>3. ASSUME ~raced', media' = "dash" PROVE (DecisionStands /\ PlayIsPending /\ BufferingSetsWanted)'
    <3>1. /\ PipelineTypes /\ DecisionStands /\ PlayIsPending /\ BufferingSetsWanted
          /\ ~raced' /\ media = "dash"
      BY <2>2, <2>3 DEF PipelineIInv
    <3>2. DecisionStands'
      BY <1>3, <3>1 DEF TimeoutWaits, PipelineTypes,
         DecisionStands, PlayIsPending, BufferingSetsWanted, Wanted, AppDecides, Deciding
    <3>3. PlayIsPending'
      BY <1>3, <3>1 DEF TimeoutWaits, PipelineTypes,
         DecisionStands, PlayIsPending, BufferingSetsWanted, Wanted, AppDecides, Deciding
    <3>4. BufferingSetsWanted'
      BY <1>3, <3>1 DEF TimeoutWaits, PipelineTypes,
         DecisionStands, PlayIsPending, BufferingSetsWanted, Wanted, AppDecides, Deciding
    <3> QED
      BY <3>2, <3>3, <3>4
  <2> QED
    BY <2>1, <2>3 DEF PipelineIInv
<1>4. CASE \E t \in Ids, enough \in BOOLEAN : TimeoutDecides(t, enough)
  <2>1. PipelineTypes'
    BY <1>4 DEF TimeoutDecides, Loop, PipelineIInv, PipelineTypes
  <2>2. ASSUME ~raced', media' = "dash" PROVE ~raced /\ media = "dash"
    BY <1>4, <2>2 DEF TimeoutDecides, Loop
  <2>3. ASSUME ~raced', media' = "dash" PROVE (DecisionStands /\ PlayIsPending /\ BufferingSetsWanted)'
    <3>1. /\ PipelineTypes /\ DecisionStands /\ PlayIsPending /\ BufferingSetsWanted
          /\ ~raced' /\ media = "dash"
      BY <2>2, <2>3 DEF PipelineIInv
    <3>2. DecisionStands'
      BY <1>4, <3>1 DEF TimeoutDecides, Loop, PipelineTypes,
         DecisionStands, PlayIsPending, BufferingSetsWanted, Wanted, AppDecides, Deciding
    <3>3. PlayIsPending'
      BY <1>4, <3>1 DEF TimeoutDecides, Loop, PipelineTypes,
         DecisionStands, PlayIsPending, BufferingSetsWanted, Wanted, AppDecides, Deciding
    <3>4. BufferingSetsWanted'
      BY <1>4, <3>1 DEF TimeoutDecides, Loop, PipelineTypes,
         DecisionStands, PlayIsPending, BufferingSetsWanted, Wanted, AppDecides, Deciding
    <3> QED
      BY <3>2, <3>3, <3>4
  <2> QED
    BY <2>1, <2>3 DEF PipelineIInv
<1>5. CASE TimeoutSets
  <2>1. PipelineTypes'
    BY <1>5 DEF TimeoutSets, Loop, SetState, PipelineIInv, PipelineTypes
  <2>2. ASSUME ~raced', media' = "dash" PROVE ~raced /\ media = "dash"
    BY <1>5, <2>2 DEF TimeoutSets, Loop, SetState
  <2>3. ASSUME ~raced', media' = "dash" PROVE (DecisionStands /\ PlayIsPending /\ BufferingSetsWanted)'
    <3>1. /\ PipelineTypes /\ DecisionStands /\ PlayIsPending /\ BufferingSetsWanted
          /\ ~raced' /\ media = "dash"
      BY <2>2, <2>3 DEF PipelineIInv
    <3>2. DecisionStands'
      BY <1>5, <3>1 DEF TimeoutSets, Loop, SetState, PipelineTypes,
         DecisionStands, PlayIsPending, BufferingSetsWanted, Wanted, AppDecides, Deciding
    <3>3. PlayIsPending'
      BY <1>5, <3>1 DEF TimeoutSets, Loop, SetState, PipelineTypes,
         DecisionStands, PlayIsPending, BufferingSetsWanted, Wanted, AppDecides, Deciding
    <3>4. BufferingSetsWanted'
      BY <1>5, <3>1 DEF TimeoutSets, Loop, SetState, PipelineTypes,
         DecisionStands, PlayIsPending, BufferingSetsWanted, Wanted, AppDecides, Deciding
    <3> QED
      BY <3>2, <3>3, <3>4
  <2> QED
    BY <2>1, <2>3 DEF PipelineIInv
<1>6. CASE \E t \in Ids : TimeoutFinishes(t)
  <2>1. PipelineTypes'
    BY <1>6 DEF TimeoutFinishes, Loop, TimerEnds, PipelineIInv, PipelineTypes
  <2>2. ASSUME ~raced', media' = "dash" PROVE ~raced /\ media = "dash"
    BY <1>6, <2>2 DEF TimeoutFinishes, Loop, TimerEnds
  <2>3. ASSUME ~raced', media' = "dash" PROVE (DecisionStands /\ PlayIsPending /\ BufferingSetsWanted)'
    <3>1. /\ PipelineTypes /\ DecisionStands /\ PlayIsPending /\ BufferingSetsWanted
          /\ ~raced' /\ media = "dash"
      BY <2>2, <2>3 DEF PipelineIInv
    <3>2. DecisionStands'
      BY <1>6, <3>1 DEF TimeoutFinishes, Loop, TimerEnds, PipelineTypes,
         DecisionStands, PlayIsPending, BufferingSetsWanted, Wanted, AppDecides, Deciding
    <3>3. PlayIsPending'
      BY <1>6, <3>1 DEF TimeoutFinishes, Loop, TimerEnds, PipelineTypes,
         DecisionStands, PlayIsPending, BufferingSetsWanted, Wanted, AppDecides, Deciding
    <3>4. BufferingSetsWanted'
      BY <1>6, <3>1 DEF TimeoutFinishes, Loop, TimerEnds, PipelineTypes,
         DecisionStands, PlayIsPending, BufferingSetsWanted, Wanted, AppDecides, Deciding
    <3> QED
      BY <3>2, <3>3, <3>4
  <2> QED
    BY <2>1, <2>3 DEF PipelineIInv
<1>7. CASE \E t \in Ids : PtsCheck(t)
  <2>1. PipelineTypes'
    BY <1>7 DEF PtsCheck, Loop, PipelineIInv, PipelineTypes
  <2>2. ASSUME ~raced', media' = "dash" PROVE ~raced /\ media = "dash"
    BY <1>7, <2>2 DEF PtsCheck, Loop
  <2>3. ASSUME ~raced', media' = "dash" PROVE (DecisionStands /\ PlayIsPending /\ BufferingSetsWanted)'
    <3>1. /\ PipelineTypes /\ DecisionStands /\ PlayIsPending /\ BufferingSetsWanted
          /\ ~raced' /\ media = "dash"
      BY <2>2, <2>3 DEF PipelineIInv
    <3>2. DecisionStands'
      BY <1>7, <3>1 DEF PtsCheck, Loop, PipelineTypes,
         DecisionStands, PlayIsPending, BufferingSetsWanted, Wanted, AppDecides, Deciding
    <3>3. PlayIsPending'
      BY <1>7, <3>1 DEF PtsCheck, Loop, PipelineTypes,
         DecisionStands, PlayIsPending, BufferingSetsWanted, Wanted, AppDecides, Deciding
    <3>4. BufferingSetsWanted'
      BY <1>7, <3>1 DEF PtsCheck, Loop, PipelineTypes,
         DecisionStands, PlayIsPending, BufferingSetsWanted, Wanted, AppDecides, Deciding
    <3> QED
      BY <3>2, <3>3, <3>4
  <2> QED
    BY <2>1, <2>3 DEF PipelineIInv
<1>8. CASE PtsCheckEnds
  <2>1. PipelineTypes'
    BY <1>8 DEF PtsCheckEnds, Loop, PipelineIInv, PipelineTypes
  <2>2. ASSUME ~raced', media' = "dash" PROVE ~raced /\ media = "dash"
    BY <1>8, <2>2 DEF PtsCheckEnds, Loop
  <2>3. ASSUME ~raced', media' = "dash" PROVE (DecisionStands /\ PlayIsPending /\ BufferingSetsWanted)'
    <3>1. /\ PipelineTypes /\ DecisionStands /\ PlayIsPending /\ BufferingSetsWanted
          /\ ~raced' /\ media = "dash"
      BY <2>2, <2>3 DEF PipelineIInv
    <3>2. DecisionStands'
      BY <1>8, <3>1 DEF PtsCheckEnds, Loop, PipelineTypes,
         DecisionStands, PlayIsPending, BufferingSetsWanted, Wanted, AppDecides, Deciding
    <3>3. PlayIsPending'
      BY <1>8, <3>1 DEF PtsCheckEnds, Loop, PipelineTypes,
         DecisionStands, PlayIsPending, BufferingSetsWanted, Wanted, AppDecides, Deciding
    <3>4. BufferingSetsWanted'
      BY <1>8, <3>1 DEF PtsCheckEnds, Loop, PipelineTypes,
         DecisionStands, PlayIsPending, BufferingSetsWanted, Wanted, AppDecides, Deciding
    <3> QED
      BY <3>2, <3>3, <3>4
  <2> QED
    BY <2>1, <2>3 DEF PipelineIInv
<1>9. CASE ClockLost
  <2>1. PipelineTypes'
    BY <1>9 DEF ClockLost, SetState, PipelineIInv, PipelineTypes
  <2>2. ASSUME ~raced', media' = "dash" PROVE ~raced /\ media = "dash"
    BY <1>9, <2>2 DEF ClockLost, SetState
  <2>3. ASSUME ~raced', media' = "dash" PROVE (DecisionStands /\ PlayIsPending /\ BufferingSetsWanted)'
    <3>1. /\ PipelineTypes /\ DecisionStands /\ PlayIsPending /\ BufferingSetsWanted
          /\ ~raced' /\ media = "dash"
      BY <2>2, <2>3 DEF PipelineIInv
    <3>2. DecisionStands'
      BY <1>9, <3>1 DEF ClockLost, SetState, PipelineTypes,
         DecisionStands, PlayIsPending, BufferingSetsWanted, Wanted, AppDecides, Deciding
    <3>3. PlayIsPending'
      BY <1>9, <3>1 DEF ClockLost, SetState, PipelineTypes,
         DecisionStands, PlayIsPending, BufferingSetsWanted, Wanted, AppDecides, Deciding
    <3>4. BufferingSetsWanted'
      BY <1>9, <3>1 DEF ClockLost, SetState, PipelineTypes,
         DecisionStands, PlayIsPending, BufferingSetsWanted, Wanted, AppDecides, Deciding
    <3> QED
      BY <3>2, <3>3, <3>4
  <2> QED
    BY <2>1, <2>3 DEF PipelineIInv
<1>10. CASE UNCHANGED pipelineVars
  <2>1. PipelineTypes'
    BY <1>10 DEF pipelineVars, PipelineIInv, PipelineTypes
  <2>2. ASSUME ~raced', media' = "dash" PROVE ~raced /\ media = "dash"
    BY <1>10, <2>2 DEF pipelineVars
  <2>3. ASSUME ~raced', media' = "dash" PROVE (DecisionStands /\ PlayIsPending /\ BufferingSetsWanted)'
    <3>1. /\ PipelineTypes /\ DecisionStands /\ PlayIsPending /\ BufferingSetsWanted
          /\ ~raced' /\ media = "dash"
      BY <2>2, <2>3 DEF PipelineIInv
    <3>2. DecisionStands'
      BY <1>10, <3>1 DEF pipelineVars, PipelineTypes,
         DecisionStands, PlayIsPending, BufferingSetsWanted, Wanted, AppDecides, Deciding
    <3>3. PlayIsPending'
      BY <1>10, <3>1 DEF pipelineVars, PipelineTypes,
         DecisionStands, PlayIsPending, BufferingSetsWanted, Wanted, AppDecides, Deciding
    <3>4. BufferingSetsWanted'
      BY <1>10, <3>1 DEF pipelineVars, PipelineTypes,
         DecisionStands, PlayIsPending, BufferingSetsWanted, Wanted, AppDecides, Deciding
    <3> QED
      BY <3>2, <3>3, <3>4
  <2> QED
    BY <2>1, <2>3 DEF PipelineIInv
<1> QED
  BY <1>1, <1>2, <1>3, <1>4, <1>5, <1>6, <1>7, <1>8, <1>9, <1>10

LEMMA PipelineStep == PipelineIInv /\ [PipelineNext]_pipelineVars => PipelineIInv'
<1> SUFFICES ASSUME PipelineIInv, [PipelineNext]_pipelineVars PROVE PipelineIInv'
  OBVIOUS
<1>1. CASE ConfigureBegins \/ Configuring \/ (\E p \in BOOLEAN : Pause(p)) \/ Pausing
  BY <1>1, ApplicationKeeps DEF Configuring, Pausing
<1>2. CASE \/ FlushBegins \/ Flushing \/ PipelineStopBegins \/ StopEnds
           \/ EnablePendingPlayState \/ IsCacheEmpty
  BY <1>2, FlushStopKeeps DEF Flushing
<1>3. CASE \/ Push \/ EndOfStreamReached \/ NotifyFragmentCachingComplete
           \/ Preroll \/ AsyncDone \/ AddsTimer \/ PtsMoves
           \/ \E d \in Decoders : Underflow(d) \/ UnderflowArms(d)
  BY <1>3, StreamKeeps
<1>4. CASE LoopGoes \/ ClockLost \/ UNCHANGED pipelineVars
  BY <1>4, LoopKeeps DEF LoopGoes, buffering_timeout
<1> QED
  BY <1>1, <1>2, <1>3, <1>4 DEF PipelineNext, CallGoesOn

(* Whatever the user pauses, resumes, flushes, stops and configures, with   *)
(* buffering before playback or without, a pipeline that was paused is left *)
(* paused, and one that was not and does not buffer plays, unless another   *)
(* thread decided about the state during a decision of the application, or  *)
(* bus_message plays a pipeline that is not DASH (InterfacePlayerRDK.cpp:   *)
(* 3249-3294, 4513 and 4905).                                               *)
THEOREM PausedStaysPaused == PipelineSpec => []RequestKept
<1>1. PipelineIInv => RequestKept
  BY DEF PipelineIInv, BufferingSetsWanted, RequestKept, PlaybackAtRest, AppDecides, Wanted
<1> QED
  BY <1>1, PipelineInitially, PipelineStep, PTL DEF PipelineSpec

-----------------------------------------------------------------------------
(* The check of the PTS after an underflow.                                 *)

PtsTypes ==
  /\ pts \in Nat /\ lastKnownPTS \in Nat /\ armedPts \in Nat
  /\ eosNotified \in BOOLEAN /\ ptsChecked \in BOOLEAN

\* The PTS only grows.  What is compared is the PTS at the underflow, or Stop has
\* forgotten it.
PtsKnown ==
  /\ armedPts <= pts
  /\ lastKnownPTS \in {armedPts, 0} \/ ptsChecked

PtsIInv == PtsTypes /\ PtsKnown

\* What the others do, who do not notify the end of stream by the PTS.
LEMMA PtsQuiet ==
  ASSUME PtsIInv, eosNotified' \in BOOLEAN,
         UNCHANGED ptsVars \/ (lastKnownPTS' = 0 /\ UNCHANGED <<pts, armedPts, ptsChecked>>)
  PROVE  PtsIInv'
  BY DEF PtsIInv, PtsTypes, PtsKnown, ptsVars

LEMMA PtsStep == PtsIInv /\ [PipelineNext]_pipelineVars => PtsIInv'
<1> SUFFICES ASSUME PtsIInv, [PipelineNext]_pipelineVars PROVE PtsIInv'
  OBVIOUS
<1> USE DEF ptsVars, streamVars
<1>1. CASE IsCacheEmpty
  BY <1>1 DEF IsCacheEmpty, PtsIInv, PtsTypes, PtsKnown
<1>2. CASE PtsMoves
  BY <1>2 DEF PtsMoves, PtsIInv, PtsTypes, PtsKnown
<1>3. ASSUME NEW d \in Decoders, UnderflowArms(d) PROVE PtsIInv'
  <2>1. /\ lastKnownPTS' = pts /\ armedPts' = pts /\ ptsChecked' = FALSE
        /\ UNCHANGED <<pts, eosNotified>>
    BY <1>3 DEF UnderflowArms
  <2>2. PtsTypes'
    BY <2>1 DEF PtsIInv, PtsTypes
  <2>3. PtsKnown'
    BY <2>1 DEF PtsIInv, PtsTypes, PtsKnown
  <2> QED
    BY <2>2, <2>3 DEF PtsIInv
<1>4. ASSUME NEW d \in Decoders, Underflow(d) PROVE PtsIInv'
  <2>1. UNCHANGED ptsVars /\ eosNotified' = eosNotified
    BY <1>4 DEF Underflow
  <2> QED
    BY <2>1, PtsQuiet DEF PtsIInv, PtsTypes
<1>5. CASE ConfigureBegins \/ Configuring \/ (\E p \in BOOLEAN : Pause(p)) \/ Pausing
  BY <1>5, PtsQuiet DEF ConfigureBegins, Configuring, ConfigureDecides, ConfigureEnds, Pause,
     Pausing, PauseSets, PauseEnds, PtsIInv, PtsTypes
<1>6. CASE FlushBegins \/ Flushing \/ PipelineStopBegins \/ StopEnds \/ EnablePendingPlayState
  BY <1>6, PtsQuiet DEF FlushBegins, Flushing, FlushNothing, FlushSeeks, PipelineStopBegins,
     StopEnds, EnablePendingPlayState, PtsIInv, PtsTypes
<1>7. CASE \/ Push \/ EndOfStreamReached \/ NotifyFragmentCachingComplete
           \/ Preroll \/ AsyncDone \/ AddsTimer
  BY <1>7, PtsQuiet DEF Push, EndOfStreamReached, NotifyFragmentCachingComplete, Preroll,
     AsyncDone, AddsTimer, PtsIInv, PtsTypes
<1>8. CASE LoopGoes \/ ClockLost
  BY <1>8, PtsQuiet DEF LoopGoes, buffering_timeout, TimeoutIdle, TimeoutRetunes, TimeoutWaits,
     TimeoutDecides, TimeoutSets, TimeoutFinishes, PtsCheck, PtsCheckEnds, ClockLost,
     PtsIInv, PtsTypes
<1>9. CASE UNCHANGED pipelineVars
  BY <1>9, PtsQuiet DEF pipelineVars, PtsIInv, PtsTypes
<1> QED
  BY <1>1, <1>2, <1>3, <1>4, <1>5, <1>6, <1>7, <1>8, <1>9 DEF PipelineNext, CallGoesOn

(* The check that an underflow at the end of the stream arms notifies the   *)
(* end of stream only if the picture has not moved since that underflow,    *)
(* also when Stop forgot the PTS in between, unless IsCacheEmpty looked at  *)
(* the PTS (InterfacePlayerPriv.h:223, InterfacePlayerRDK.cpp:3890-3979).   *)
THEOREM EosOnlyWhenPictureStands == PipelineSpec => PictureStandsAtEos
<1>1. ASSUME PipelineInit PROVE PtsIInv
  <2>1. PtsTypes
    BY <1>1 DEF PipelineInit, PtsTypes
  <2>2. PtsKnown
    BY <1>1 DEF PipelineInit, PtsKnown
  <2> QED
    BY <2>1, <2>2 DEF PtsIInv
<1>2. PtsIInv /\ [PipelineNext]_pipelineVars =>
        [PtsCheckNotifies => pts = armedPts \/ ptsChecked]_pipelineVars
  BY DEF PtsIInv, PtsTypes, PtsKnown, PtsCheckNotifies, PtsCheck
<1> QED
  BY <1>1, <1>2, PtsStep, PTL DEF PipelineSpec, PictureStandsAtEos

-----------------------------------------------------------------------------
(* The position, and the samples of the monitor.                            *)

MonitoringTypes ==
  /\ config \in [progressive : BOOLEAN, restamp : BOOLEAN, posQuery : BOOLEAN]
  /\ rate \in Int \ {0} /\ segment \in Nat /\ seekPosition \in Nat
  /\ restamped \in BOOLEAN /\ resetPosition \in BOOLEAN /\ sought \in BOOLEAN
  /\ displayed \in [AVTracks -> Nat] /\ av_position \in [AVTracks -> Int]
  /\ moved \subseteq AVTracks /\ compared \subseteq AVTracks

\* Since the first buffer of the last flush the start is 0 if qtdemux restamps, and
\* else asked for or the source's.
StartFollows ==
  ~resetPosition /\ ~guessed =>
    /\ restamped <=> EnableOverride /\ ~config.progressive
    /\ config.posQuery => segmentStart \in (IF EnableOverride THEN {0} ELSE {-1, segment})

\* What a sink answers that has shown n ticks since the seek.
PositionAt(n) ==
  IF restamped THEN n ELSE segment + (IF config.progressive THEN rate ELSE 1) * n

\* If no seek came since, the sample before has of each track that it read the
\* position of that time, and the track has moved since exactly if it showed more.
SampleKnown ==
  ~sought => \A t \in compared : \E n \in Nat :
    /\ n <= displayed[t] /\ av_position[t] = PositionAt(n)
    /\ t \in moved <=> n < displayed[t]

MonitoringIInv == MonitoringTypes /\ StartFollows /\ SampleKnown

LEMMA FactorsDiffer ==
  ASSUME NEW a \in Int, NEW r \in Int, r # 0, NEW m \in Nat, NEW n \in Nat,
         a + r * m = a + r * n
  PROVE  m = n
<1>1. r * (m - n) = 0
  OBVIOUS
<1>2. \A x, y \in Int : x * y = 0 => x = 0 \/ y = 0
  OBVIOUS
<1>3. m - n = 0
  BY <1>1, <1>2
<1> QED
  BY <1>3

\* A sink that has shown more answers with another position.
LEMMA PositionsDiffer ==
  ASSUME MonitoringTypes, NEW m \in Nat, NEW n \in Nat, PositionAt(m) = PositionAt(n)
  PROVE  m = n
<1> DEFINE k == IF config.progressive THEN rate ELSE 1
<1>1. k \in Int /\ k # 0
  BY DEF MonitoringTypes
<1>2. CASE restamped
  BY <1>2 DEF PositionAt
<1>3. CASE ~restamped
  <2>1. segment + k * m = segment + k * n /\ segment \in Int
    BY <1>3 DEF PositionAt, MonitoringTypes
  <2> HIDE DEF k
  <2> QED
    BY <1>1, <2>1, FactorsDiffer
<1> QED
  BY <1>2, <1>3

LEMMA MonitoringTypesKept == MonitoringTypes /\ [MonitoringNext]_monitoringVars => MonitoringTypes'
<1> SUFFICES ASSUME MonitoringTypes, [MonitoringNext]_monitoringVars PROVE MonitoringTypes'
  OBVIOUS
<1> USE DEF MonitoringTypes
<1>1. CASE ShowsMore
  <2> PICK d \in [AVTracks -> 0..1] :
        /\ displayed' = [t \in AVTracks |-> displayed[t] + d[t]]
        /\ moved' = IF sought THEN {} ELSE moved \union {t \in AVTracks : d[t] > 0}
    BY <1>1 DEF ShowsMore
  <2>1. displayed' \in [AVTracks -> Nat] /\ moved' \subseteq AVTracks
    OBVIOUS
  <2> QED
    BY <1>1, <2>1 DEF ShowsMore, seekVars, monitorVars
<1>2. ASSUME NEW p \in SeekTo, NEW r \in Rates, FlushPosition(p, r) PROVE MonitoringTypes'
  <2>1. p \in Nat /\ r \in Int \ {0}
    BY MonitoringAssumption
  <2>2. rate' = r /\ seekPosition' = p /\ sought' = TRUE /\ moved' = {}
        /\ UNCHANGED <<config, restamped, av_position, compared>>
    BY <1>2 DEF FlushPosition, monitorVars
  <2>3. resetPosition' \in BOOLEAN /\ displayed' \in [AVTracks -> Nat]
    <3>1. resetPosition' \in BOOLEAN
      <4>1. UNCHANGED resetPosition \/ resetPosition' = TRUE
        BY <1>2 DEF FlushPosition
      <4>2. CASE UNCHANGED resetPosition
        BY <4>2
      <4>3. CASE resetPosition' = TRUE
        BY <4>3
      <4> QED
        BY <4>1, <4>2, <4>3
    <3>2. displayed' = displayed \/ displayed' = [t \in AVTracks |-> 0]
      BY <1>2 DEF FlushPosition
    <3>3. displayed' \in [AVTracks -> Nat]
      BY <3>2
    <3> QED
      BY <3>1, <3>3
  <2>4. segment' \in Nat
    BY <1>2, <2>1 DEF FlushPosition
  <2> QED
    BY <2>1, <2>2, <2>3, <2>4
<1>3. CASE SendFirstBuffer
  <2>1. segment' \in Nat /\ displayed' \in [AVTracks -> Nat]
    BY <1>3 DEF SendFirstBuffer
  <2>2. restamped' \in BOOLEAN
    BY <1>3 DEF SendFirstBuffer
  <2> QED
    BY <1>3, <2>1, <2>2 DEF SendFirstBuffer, monitorVars
<1>4. CASE AskSegmentStart
  BY <1>4 DEF AskSegmentStart, clockVars, seekVars, monitorVars
<1>5. CASE MonitorAV
  <2> PICK read \in SUBSET (IF rate = 1 THEN AVTracks ELSE {"video"}) :
        av_position' = [t \in AVTracks |-> IF t \in read THEN Position(t) ELSE 0] /\ compared' = read
    BY <1>5 DEF MonitorAV, KeepSample
  <2>1. \A t \in AVTracks : Position(t) \in Int
    BY DEF Position
  <2>2. av_position' \in [AVTracks -> Int] /\ compared' \subseteq AVTracks
    BY <2>1 DEF AVTracks
  <2> QED
    BY <1>5, <2>2 DEF MonitorAV, seekVars
<1>6. CASE UNCHANGED monitoringVars
  BY <1>6 DEF monitoringVars, clockVars, seekVars, monitorVars
<1> QED
  BY <1>1, <1>2, <1>3, <1>4, <1>5, <1>6 DEF MonitoringNext

LEMMA StartFollowsKept ==
  MonitoringTypes /\ StartFollows /\ [MonitoringNext]_monitoringVars => StartFollows'
<1> SUFFICES ASSUME MonitoringTypes, StartFollows, [MonitoringNext]_monitoringVars
             PROVE  StartFollows'
  OBVIOUS
<1>1. ASSUME UNCHANGED <<config, rate, segment, restamped, segmentStart, resetPosition, guessed>>
      PROVE  StartFollows'
  BY <1>1 DEF StartFollows, EnableOverride
<1>2. CASE ShowsMore
  BY <1>1, <1>2 DEF ShowsMore, seekVars, positionVars
<1>3. ASSUME NEW p \in SeekTo, NEW r \in Rates, FlushPosition(p, r) PROVE StartFollows'
  <2>1. resetPosition' \/ guessed'
    BY <1>3 DEF FlushPosition
  <2> QED
    BY <2>1 DEF StartFollows
<1>4. CASE SendFirstBuffer
  <2>1. /\ restamped' = (EnableOverride /\ ~config.progressive)
        /\ segmentStart' = IF config.posQuery /\ ~EnableOverride THEN -1 ELSE 0
        /\ UNCHANGED <<config, rate>>
    BY <1>4 DEF SendFirstBuffer, SegmentStartAtFirst
  <2>2. EnableOverride' = EnableOverride
    BY <2>1 DEF EnableOverride
  <2> QED
    BY <2>1, <2>2 DEF StartFollows
<1>5. CASE AskSegmentStart
  <2>1. UNCHANGED <<config, rate, segment, restamped, resetPosition>> /\ segmentStart = -1
    BY <1>5 DEF AskSegmentStart, seekVars
  <2>2. EnableOverride' = EnableOverride
    BY <2>1 DEF EnableOverride
  <2>3. \/ segmentStart' = segment /\ guessed' = guessed
        \/ guessed'
    BY <1>5 DEF AskSegmentStart
  <2> QED
    BY <2>1, <2>2, <2>3 DEF StartFollows
<1>6. CASE MonitorAV
  BY <1>1, <1>6 DEF MonitorAV, seekVars, positionVars
<1>7. CASE UNCHANGED monitoringVars
  BY <1>1, <1>7 DEF monitoringVars, seekVars, positionVars
<1> QED
  BY <1>2, <1>3, <1>4, <1>5, <1>6, <1>7 DEF MonitoringNext

LEMMA SampleStaysKnown ==
  MonitoringTypes /\ SampleKnown /\ [MonitoringNext]_monitoringVars => SampleKnown'
<1> SUFFICES ASSUME MonitoringTypes, SampleKnown, [MonitoringNext]_monitoringVars
             PROVE  SampleKnown'
  OBVIOUS
<1>2. ASSUME UNCHANGED <<config, rate, segment, restamped, sought, displayed, moved, av_position, compared>>
      PROVE  SampleKnown'
  BY <1>2 DEF SampleKnown, PositionAt
<1>3. CASE ShowsMore
  <2>1. PICK d \in [AVTracks -> 0..1] :
          /\ displayed' = [t \in AVTracks |-> displayed[t] + d[t]]
          /\ moved' = IF sought THEN {} ELSE moved \union {t \in AVTracks : d[t] > 0}
    BY <1>3 DEF ShowsMore
  <2>2. UNCHANGED <<config, restamped, sought, rate, segment, av_position, compared>>
    BY <1>3 DEF ShowsMore, seekVars, monitorVars
  <2> SUFFICES ASSUME ~sought, NEW t \in compared
               PROVE  \E n \in Nat : /\ n <= displayed'[t] /\ av_position[t] = PositionAt(n)
                                     /\ t \in moved' <=> n < displayed'[t]
    BY <2>2 DEF SampleKnown, PositionAt
  <2>3. PICK n \in Nat : /\ n <= displayed[t] /\ av_position[t] = PositionAt(n)
                         /\ t \in moved <=> n < displayed[t]
    BY DEF SampleKnown
  <2>4. /\ t \in AVTracks /\ displayed[t] \in Nat /\ d[t] \in 0..1
        /\ displayed'[t] = displayed[t] + d[t]
    BY <2>1 DEF MonitoringTypes
  <2>5. t \in moved' <=> t \in moved \/ d[t] > 0
    BY <2>1, <2>4
  <2>6. n <= displayed'[t] /\ (t \in moved' <=> n < displayed'[t])
    BY <2>3, <2>4, <2>5
  <2> QED
    BY <2>3, <2>6
<1>4. CASE SendFirstBuffer \/ \E p \in SeekTo, r \in Rates : FlushPosition(p, r)
  <2>1. sought' = TRUE
    BY <1>4 DEF SendFirstBuffer, FlushPosition
  <2> QED
    BY <2>1 DEF SampleKnown
<1>5. CASE AskSegmentStart
  BY <1>2, <1>5 DEF AskSegmentStart, clockVars, seekVars, monitorVars
<1>6. CASE MonitorAV
  <2>1. PICK read \in SUBSET (IF rate = 1 THEN AVTracks ELSE {"video"}) :
          av_position' = [t \in AVTracks |-> IF t \in read THEN Position(t) ELSE 0] /\ compared' = read
    BY <1>6 DEF MonitorAV, KeepSample
  <2>2. UNCHANGED <<config, restamped, rate, segment, displayed>> /\ moved' = {}
    BY <1>6 DEF MonitorAV, seekVars
  <2> SUFFICES ASSUME NEW t \in read
               PROVE  \E n \in Nat : /\ n <= displayed[t] /\ av_position'[t] = PositionAt(n)
                                     /\ t \in moved' <=> n < displayed[t]
    BY <2>1, <2>2 DEF SampleKnown, PositionAt
  <2>3. t \in AVTracks /\ displayed[t] \in Nat
    BY DEF MonitoringTypes, AVTracks
  <2>4. av_position'[t] = PositionAt(displayed[t])
    BY <2>1, <2>3 DEF Position, PositionAt
  <2> QED
    BY <2>2, <2>3, <2>4
<1>7. CASE UNCHANGED monitoringVars
  BY <1>2, <1>7 DEF monitoringVars, clockVars, seekVars, monitorVars
<1> QED
  BY <1>3, <1>4, <1>5, <1>6, <1>7 DEF MonitoringNext

LEMMA MonitoringInvariant == MonitoringSpec => []MonitoringIInv
<1>1. MonitoringInit => MonitoringIInv
  <2> SUFFICES ASSUME MonitoringInit PROVE MonitoringIInv
    OBVIOUS
  <2>1. MonitoringTypes
    <3>1. /\ config \in [progressive : BOOLEAN, restamp : BOOLEAN, posQuery : BOOLEAN]
          /\ rate = 1 /\ segment = 0 /\ seekPosition = 0
          /\ restamped = FALSE /\ resetPosition = TRUE /\ sought = FALSE
          /\ moved = {} /\ compared = {}
      BY DEF MonitoringInit
    <3>2. displayed \in [AVTracks -> Nat] /\ av_position \in [AVTracks -> Int]
      BY DEF MonitoringInit
    <3>3. restamped \in BOOLEAN /\ resetPosition \in BOOLEAN /\ sought \in BOOLEAN
      BY <3>1
    <3> QED
      BY <3>1, <3>2, <3>3 DEF MonitoringTypes
  <2>2. resetPosition /\ compared = {}
    BY DEF MonitoringInit
  <2>3. StartFollows /\ SampleKnown
    BY <2>2 DEF StartFollows, SampleKnown
  <2> QED
    BY <2>1, <2>3 DEF MonitoringIInv
<1>2. MonitoringIInv /\ [MonitoringNext]_monitoringVars => MonitoringIInv'
  BY MonitoringTypesKept, StartFollowsKept, SampleStaysKnown DEF MonitoringIInv
<1> QED
  BY <1>1, <1>2, PTL DEF MonitoringSpec

PositionAsShown == StartKnown => GetPositionMilliseconds = displayed["video"] * rate

LEMMA PositionIsTrue == MonitoringIInv => PositionAsShown
<1> SUFFICES ASSUME MonitoringTypes, StartFollows, StartKnown
             PROVE  GetPositionMilliseconds = displayed["video"] * rate
  BY DEF MonitoringIInv, PositionAsShown
<1>1. PICK n \in Nat : n = displayed["video"]
  BY DEF MonitoringTypes, AVTracks
<1>2. rate \in Int /\ segment \in Nat
  BY DEF MonitoringTypes
<1>3. CASE EnableOverride
  <2>1. restamped /\ segmentStart = 0 /\ ~config.progressive
    BY <1>3 DEF StartKnown, StartFollows
  <2> QED
    BY <1>1, <1>2, <2>1 DEF GetPositionMilliseconds, Position
<1>4. CASE ~EnableOverride
  <2>1. ~restamped /\ segmentStart = segment
    BY <1>4 DEF StartKnown, StartFollows
  <2>2. Position("video") - (IF segmentStart > 0 THEN segmentStart ELSE 0)
          = (IF config.progressive THEN rate ELSE 1) * n
    <3>1. Position("video") = segment + (IF config.progressive THEN rate ELSE 1) * n
      BY <1>1, <2>1 DEF Position
    <3>2. CASE config.progressive
      BY <1>2, <2>1, <3>1, <3>2
    <3>3. CASE ~config.progressive
      BY <1>2, <2>1, <3>1, <3>3
    <3> QED
      BY <3>2, <3>3
  <2>3. CASE config.progressive
    BY <1>1, <1>2, <2>2, <2>3 DEF GetPositionMilliseconds
  <2>4. CASE ~config.progressive
    BY <1>1, <1>2, <2>2, <2>4 DEF GetPositionMilliseconds
  <2> QED
    BY <2>3, <2>4
<1> QED
  BY <1>3, <1>4

\* What Describe says of two tracks that it reads.
LEMMA TracksDescribed ==
  ASSUME NEW read \in SUBSET AVTracks
  PROVE  /\ Describe(read) \in {"ok", "avsync"} =>
              \A t \in AVTracks : Position(t) # av_position[t]
         /\ Describe(read) \in {"stall", "video freeze"} => Position("video") = av_position["video"]
         /\ Describe(read) \in {"stall", "audio drop"} => Position("audio") = av_position["audio"]
<1> DEFINE stood == {t \in read : Position(t) = av_position[t]}
           delta == Position("video") - Position("audio")
           both == read = AVTracks
<1>1. Describe(read) =
        CASE read = {}                         -> "eos"
          [] Cardinality(read) = 1             -> "trickplay"
          [] both /\ stood = AVTracks          -> "stall"
          [] both /\ stood = {"video"}         -> "video freeze"
          [] both /\ stood = {"audio"}         -> "audio drop"
          [] both /\ stood = {} /\ (delta > Ahead \/ delta < Behind) -> "avsync"
          [] OTHER                             -> "ok"
  BY DEF Describe
<1>2. CASE read = {}
  <2>1. Cardinality(read) = 0 /\ ~both
    BY <1>2, FS_EmptySet DEF AVTracks
  <2> QED
    BY <1>1, <1>2, <2>1
<1>3. CASE read = {"video"} \/ read = {"audio"}
  <2>1. Cardinality(read) = 1 /\ ~both /\ read # {}
    BY <1>3, FS_Singleton DEF AVTracks
  <2> QED
    BY <1>1, <2>1
<1>4. CASE read = AVTracks
  <2>1. Cardinality(read) # 1 /\ read # {}
    <3>1. \A x : read # {x}
      BY <1>4 DEF AVTracks
    <3>2. IsFiniteSet(read)
      <4>1. IsFiniteSet({"video"} \union {"audio"})
        BY FS_Singleton, FS_AddElement
      <4>2. read = {"video"} \union {"audio"}
        BY <1>4 DEF AVTracks
      <4> QED
        BY <4>1, <4>2
    <3> QED
      BY <1>4, <3>1, <3>2, FS_Singleton DEF AVTracks
  <2>2. stood = {t \in AVTracks : Position(t) = av_position[t]}
    BY <1>4
  <2>3. stood = AVTracks \/ stood = {"video"} \/ stood = {"audio"} \/ stood = {}
    BY <2>2 DEF AVTracks
  <2>4. CASE stood = AVTracks
    BY <1>1, <1>4, <2>1, <2>2, <2>4 DEF AVTracks
  <2>5. CASE stood = {"video"}
    BY <1>1, <1>4, <2>1, <2>2, <2>5 DEF AVTracks
  <2>6. CASE stood = {"audio"}
    BY <1>1, <1>4, <2>1, <2>2, <2>6 DEF AVTracks
  <2>7. CASE stood = {}
    BY <1>1, <1>4, <2>1, <2>2, <2>7 DEF AVTracks
  <2> QED
    BY <2>3, <2>4, <2>5, <2>6, <2>7
<1> QED
  BY <1>2, <1>3, <1>4 DEF AVTracks

(* The position is what was shown since the flush, at the rate, once the       *)
(* source has said where it starts, whatever rates and starts were before     *)
(* (lines 2560-2598 and 2358-2371); and of the tracks that the sample before  *)
(* read too MonitorAV says of none that it plays if it stood, and of none     *)
(* that it stood if it moved (lines 645-697).                                 *)
THEOREM PositionAndTracksTrue == MonitoringSpec => ToldAsPlayed
<1>1. MonitoringIInv' => PositionAsShown'
  BY PositionIsTrue, PTL
<1>2. MonitoringIInv /\ MonitoringIInv' /\ [MonitoringNext]_monitoringVars =>
        [/\ StartKnown' => GetPositionMilliseconds' = displayed'["video"] * rate'
         /\ samples' # samples /\ ~sought => SampleIsTrue]_monitoringVars
  <2> SUFFICES ASSUME MonitoringIInv, MonitoringIInv', [MonitoringNext]_monitoringVars,
                      samples' # samples, ~sought
               PROVE  SampleIsTrue
    BY <1>1 DEF PositionAsShown
  <2>1. MonitorAV
    BY DEF MonitoringNext, ShowsMore, SendFirstBuffer, AskSegmentStart, FlushPosition, monitoringVars,
           monitorVars
  <2>2. PICK read \in SUBSET AVTracks : description' = Describe(read)
    BY <2>1 DEF MonitorAV, AVTracks
  <2>3. ASSUME NEW t \in compared
        PROVE  t \in AVTracks /\ (t \in moved <=> Position(t) # av_position[t])
    <3>1. PICK n \in Nat : /\ n <= displayed[t] /\ av_position[t] = PositionAt(n)
                           /\ t \in moved <=> n < displayed[t]
      BY DEF MonitoringIInv, SampleKnown
    <3>2. t \in AVTracks /\ displayed[t] \in Nat
      BY DEF MonitoringIInv, MonitoringTypes
    <3>3. Position(t) = PositionAt(displayed[t])
      BY DEF Position, PositionAt
    <3>4. Position(t) = av_position[t] => n = displayed[t]
      BY <3>1, <3>2, <3>3, PositionsDiffer DEF MonitoringIInv
    <3> QED
      BY <3>1, <3>2, <3>3, <3>4
  <2> QED
    BY <2>2, <2>3, TracksDescribed DEF SampleIsTrue
<1> QED
  BY <1>2, MonitoringInvariant, PTL DEF MonitoringSpec, ToldAsPlayed

-----------------------------------------------------------------------------

-----------------------------------------------------------------------------
(* The end of stream.                                                      *)

\* Who will clear the pending flag: a thread that has yet to schedule the
\* callback, a callback queued or running, or an application thread that is
\* removing it.
SomeoneClears ==
  \/ \E n \in Notifiers : pc[n] \in {"setSignalled", "schedule"}
  \/ queue # <<>>
  \/ worker # "none"
  \/ app \in {"flushId", "flushPending", "stopPending"}

PendingInv == eosCallbackIdleTaskPending => SomeoneClears

\* What the actions need of the type invariant.
Shape ==
  /\ pc \in [Notifiers -> NotifyPcs]
  /\ scheduled \in 0..MaxTasks
  /\ queue \in Seq(1..scheduled)

EosIInv == Shape /\ PendingInv

LEMMA RemovalType ==
  ASSUME Shape, RemoveEosTask PROVE queue' \in Seq(1..scheduled)
<1>1. CASE UNCHANGED queue
  BY <1>1 DEF Shape
<1>2. ASSUME NEW i \in 1..Len(queue),
             queue' = SubSeq(queue, 1, i - 1) \o SubSeq(queue, i + 1, Len(queue))
      PROVE  queue' \in Seq(1..scheduled)
  <2>1. SubSeq(queue, 1, i - 1) \in Seq(1..scheduled)
    BY DEF Shape
  <2>2. SubSeq(queue, i + 1, Len(queue)) \in Seq(1..scheduled)
    BY DEF Shape
  <2>3. PICK A : A = SubSeq(queue, 1, i - 1)
    OBVIOUS
  <2>4. PICK B : B = SubSeq(queue, i + 1, Len(queue))
    OBVIOUS
  <2>5. A \o B \in Seq(1..scheduled)
    BY <2>1, <2>2, <2>3, <2>4, ConcatProperties
  <2> QED
    BY <1>2, <2>3, <2>4, <2>5
<1> QED
  BY <1>1, <1>2 DEF RemoveEosTask

LEMMA ShapeKept == Shape /\ [EosNext]_eosVars => Shape'
<1> SUFFICES ASSUME Shape, [EosNext]_eosVars PROVE Shape'
  OBVIOUS
<1> USE BoundAssumption DEF Shape
<1>1. ASSUME NEW n \in Notifiers, NotifyEOS(n) PROVE Shape'
  <2>1. CASE TestSignalled(n)
    BY <2>1 DEF TestSignalled, Goes, NotifyPcs
  <2>2. CASE TestPending(n)
    BY <2>2 DEF TestPending, Goes, NotifyPcs
  <2>3. CASE SetPending(n)
    BY <2>3 DEF SetPending, Goes, NotifyPcs
  <2>4. CASE SetSignalled(n)
    BY <2>4 DEF SetSignalled, Goes, NotifyPcs
  <2>5. CASE Schedule(n)
    <3>1. scheduled' = scheduled + 1 /\ scheduled' \in 0..MaxTasks
      BY <2>5 DEF Schedule
    <3>2. queue \in Seq(1..scheduled')
      BY <3>1
    <3>3. queue' \in Seq(1..scheduled')
      BY <2>5, <3>1, <3>2 DEF Schedule
    <3> QED
      BY <2>5, <3>1, <3>3 DEF Schedule, Goes, NotifyPcs
  <2>6. CASE StoreId(n)
    BY <2>6 DEF StoreId, Goes, NotifyPcs
  <2> QED
    BY <1>1, <2>1, <2>2, <2>3, <2>4, <2>5, <2>6 DEF NotifyEOS
<1>2. CASE IdleCallbackOnEOS
  BY <1>2 DEF IdleCallbackOnEOS, TakeTask, TriggerEvent, CallbackClearsId,
              CallbackClearsPending, notifyVars
<1>3. ASSUME RemoveEosTask PROVE queue' \in Seq(1..scheduled)
  BY <1>3, RemovalType
<1>4. CASE Flush
  BY <1>3, <1>4 DEF Flush, FlushBegin, FlushRemoves, FlushClearsId,
                    FlushClearsPending, FlushEnds, notifyVars
<1>5. CASE Stop
  BY <1>3, <1>5 DEF Stop, StopBegin, StopTest, StopRemoves, StopClearsPending,
                    StopClearsId, StopWaits, notifyVars
<1>6. CASE ResetEOSSignalled \/ CreatePipeline
  BY <1>6 DEF ResetEOSSignalled, CreatePipeline, notifyVars
<1>7. CASE UNCHANGED eosVars
  BY <1>7 DEF eosVars, notifyVars
<1> QED
  BY <1>1, <1>2, <1>4, <1>5, <1>6, <1>7 DEF EosNext

LEMMA PendingKept == EosIInv /\ [EosNext]_eosVars => PendingInv'
<1> SUFFICES ASSUME EosIInv, [EosNext]_eosVars PROVE PendingInv'
  OBVIOUS
<1> USE DEF EosIInv, PendingInv, SomeoneClears
<1>1. ASSUME NEW n \in Notifiers, NotifyEOS(n) PROVE PendingInv'
  <2>0. pc \in [Notifiers -> NotifyPcs]
    BY DEF Shape
  <2>1. CASE TestSignalled(n) \/ TestPending(n)
    BY <2>0, <2>1 DEF TestSignalled, TestPending, Goes, flagVars
  <2>2. CASE SetPending(n)
    BY <2>0, <2>2 DEF SetPending, Goes
  <2>3. CASE SetSignalled(n)
    BY <2>0, <2>3 DEF SetSignalled, Goes
  <2>4. CASE Schedule(n)
    <3>1. queue' # <<>>
      BY <2>4 DEF Schedule, Shape
    <3> QED
      BY <3>1
  <2>5. CASE StoreId(n)
    BY <2>0, <2>5 DEF StoreId, Goes
  <2> QED
    BY <1>1, <2>1, <2>2, <2>3, <2>4, <2>5 DEF NotifyEOS
<1>2. CASE IdleCallbackOnEOS
  BY <1>2 DEF IdleCallbackOnEOS, TakeTask, TriggerEvent, CallbackClearsId,
              CallbackClearsPending, notifyVars, flagVars
<1>3. CASE Flush
  BY <1>3 DEF Flush, FlushBegin, FlushRemoves, FlushClearsId, FlushClearsPending,
              FlushEnds, AppGoes, notifyVars, flagVars
<1>4. CASE Stop
  BY <1>4 DEF Stop, StopBegin, StopTest, StopRemoves, StopClearsPending,
              StopClearsId, StopWaits, AppGoes, notifyVars, flagVars
<1>5. CASE ResetEOSSignalled \/ CreatePipeline
  BY <1>5 DEF ResetEOSSignalled, CreatePipeline, notifyVars, flagVars
<1>6. CASE UNCHANGED eosVars
  BY <1>6 DEF eosVars, notifyVars, flagVars
<1> QED
  BY <1>1, <1>2, <1>3, <1>4, <1>5, <1>6 DEF EosNext

\* However many threads report the end of the stream, and however they, the
\* callback, Flush and Stop interleave, eosCallbackIdleTaskPending is not left
\* set when nothing is under way (lines 4863-4866).
THEOREM PendingIsNeverStuck == EosSpec => []PendingNotStuck
<1>1. EosInit => EosIInv
  BY BoundAssumption DEF EosInit, EosIInv, Shape, PendingInv, NotifyPcs
<1>2. EosIInv /\ [EosNext]_eosVars => EosIInv'
  BY ShapeKept, PendingKept DEF EosIInv
<1>3. EosIInv => PendingNotStuck
  BY DEF EosIInv, PendingInv, SomeoneClears, PendingNotStuck, AtRest
<1> QED
  BY <1>1, <1>2, <1>3, PTL DEF EosSpec

-----------------------------------------------------------------------------
\* With threads that do not overlap: a call that is past its first test will
\* be the first to signal since the reset.
OnceInv ==
  /\ pc \in [Notifiers -> NotifyPcs]
  /\ signals \in {0, 1}
  /\ ~eosSignalled => signals = 0
  /\ \A n \in Notifiers :
       pc[n] \in {"testPending", "setPending", "setSignalled"} => signals = 0

\* A single thread that notifies signals the end of the stream once between
\* two resets, although the callback, Flush and Stop clear the pending flag at
\* any moment.
THEOREM OneThreadSignalsOnce ==
  ASSUME \A m, n \in Notifiers : m = n
  PROVE  EosSpec => []EosOncePerReset
<1>1. EosInit => OnceInv
  BY DEF EosInit, OnceInv, NotifyPcs
<1>2. OnceInv /\ [EosNext]_eosVars => OnceInv'
  <2> SUFFICES ASSUME OnceInv, [EosNext]_eosVars PROVE OnceInv'
    OBVIOUS
  <2> USE DEF OnceInv, NotifyPcs
  <2>1. ASSUME NEW n \in Notifiers, NotifyEOS(n) PROVE OnceInv'
    <3>1. CASE TestSignalled(n)
      BY <3>1 DEF TestSignalled, Goes, flagVars
    <3>2. CASE TestPending(n)
      BY <3>2 DEF TestPending, Goes, flagVars
    <3>3. CASE SetPending(n)
      BY <3>3 DEF SetPending, Goes
    <3>4. CASE SetSignalled(n)
      <4>1. signals' = 1 /\ eosSignalled' = TRUE
        BY <3>4 DEF SetSignalled, Goes
      <4>2. \A m \in Notifiers : pc'[m] = "schedule"
        BY <3>4 DEF SetSignalled, Goes
      <4>3. pc' \in [Notifiers -> NotifyPcs]
        BY <3>4 DEF SetSignalled, Goes
      <4> QED
        BY <4>1, <4>2, <4>3
    <3>5. CASE Schedule(n)
      BY <3>5 DEF Schedule, Goes, flagVars
    <3>6. CASE StoreId(n)
      BY <3>6 DEF StoreId, Goes
    <3> QED
      BY <2>1, <3>1, <3>2, <3>3, <3>4, <3>5, <3>6 DEF NotifyEOS
  <2>2. CASE IdleCallbackOnEOS
    BY <2>2 DEF IdleCallbackOnEOS, TakeTask, TriggerEvent, CallbackClearsId,
                CallbackClearsPending, notifyVars, flagVars
  <2>3. CASE Flush
    BY <2>3 DEF Flush, FlushBegin, FlushRemoves, FlushClearsId, FlushClearsPending,
                FlushEnds, notifyVars, flagVars
  <2>4. CASE Stop
    BY <2>4 DEF Stop, StopBegin, StopTest, StopRemoves, StopClearsPending,
                StopClearsId, StopWaits, notifyVars, flagVars
  <2>5. CASE ResetEOSSignalled \/ CreatePipeline
    BY <2>5 DEF ResetEOSSignalled, CreatePipeline, notifyVars, flagVars
  <2>6. CASE UNCHANGED eosVars
    BY <2>6 DEF eosVars, notifyVars, flagVars
  <2> QED
    BY <2>1, <2>2, <2>3, <2>4, <2>5, <2>6 DEF EosNext
<1>3. OnceInv => EosOncePerReset
  BY DEF OnceInv, EosOncePerReset
<1> QED
  BY <1>1, <1>2, <1>3, PTL DEF EosSpec

-----------------------------------------------------------------------------
(* The idle tasks.                                                         *)

Tasks(n) == [id : 1..n, kind : Kinds]
Queued(x) == \E p \in 1..Len(tasks) : tasks[p] = x

\* An id is the one of a single task: no two of the places that keep ids keep the
\* same one.
IdsApart ==
  \A k \in IdleKinds : taskID[k] # NO_TASK_ID =>
    /\ taskID[k] # firstFrameId
    /\ \A n \in FrameNotifiers : taskID[k] # frameTid[n]
    /\ \A l \in IdleKinds : l # k => taskID[l] # taskID[k]

IdleIInv == IdleTypeOK /\ IdsApart /\ IdsAreLive

\* RemoveTask takes nothing but the task with the id.
LEMMA RemoveKeeps ==
  ASSUME NEW S, tasks \in Seq(S), NEW i, RemoveTask(i)
  PROVE  tasks' \in Seq(S) /\ \A x : Queued(x) /\ x.id # i => Queued(x)'
<1>1. CASE UNCHANGED tasks
  BY <1>1 DEF Queued
<1>2. ASSUME NEW p \in 1..Len(tasks), tasks[p].id = i,
             NEW A, A = SubSeq(tasks, 1, p - 1),
             NEW B, B = SubSeq(tasks, p + 1, Len(tasks)), tasks' = A \o B
      PROVE  tasks' \in Seq(S) /\ \A x : Queued(x) /\ x.id # i => Queued(x)'
  <2>1. /\ A \in Seq(S) /\ Len(A) = p - 1
        /\ \A q \in 1..(p - 1) : A[q] = tasks[q]
    BY <1>2, SubSeqProperties
  <2>2. /\ B \in Seq(S) /\ Len(B) = Len(tasks) - p
        /\ \A q \in 1..(Len(tasks) - p) : B[q] = tasks[p + q]
    BY <1>2, SubSeqProperties
  <2>3. /\ tasks' \in Seq(S) /\ Len(tasks') = Len(tasks) - 1
        /\ \A q \in 1..(Len(tasks) - 1) : tasks'[q] = IF q < p THEN A[q] ELSE B[q - (p - 1)]
    <3>1. (p - 1) + (Len(tasks) - p) = Len(tasks) - 1 /\ Len(tasks) \in Nat
      OBVIOUS
    <3>2. /\ A \o B \in Seq(S) /\ Len(A \o B) = Len(A) + Len(B)
          /\ \A q \in 1..(Len(A) + Len(B)) :
               (A \o B)[q] = IF q <= Len(A) THEN A[q] ELSE B[q - Len(A)]
      BY <2>1, <2>2, ConcatProperties
    <3>3. \A q \in 1..(Len(tasks) - 1) : q <= p - 1 <=> q < p
      OBVIOUS
    <3> QED
      BY <1>2, <2>1, <2>2, <3>1, <3>2, <3>3
  <2>4. ASSUME NEW q \in 1..Len(tasks), tasks[q].id # i
        PROVE  \E r \in 1..Len(tasks') : tasks'[r] = tasks[q]
    <3>1. CASE q < p
      BY <2>1, <2>3, <3>1
    <3>2. CASE q > p
      <4>1. q - 1 \in 1..(Len(tasks) - 1) /\ (q - 1) - (p - 1) = q - p /\ ~(q - 1 < p)
        BY <3>2
      <4>2. tasks'[q - 1] = B[q - p] /\ B[q - p] = tasks[q]
        <5>1. tasks'[q - 1] = B[(q - 1) - (p - 1)]
          BY <2>3, <4>1
        <5>2. q - p \in 1..(Len(tasks) - p) /\ p + (q - p) = q
          BY <3>2
        <5>3. B[q - p] = tasks[p + (q - p)]
          BY <2>2, <5>2
        <5> QED
          BY <4>1, <5>1, <5>2, <5>3
      <4> QED
        BY <2>3, <4>1, <4>2
    <3> QED
      <4>1. q # p
        BY <1>2, <2>4
      <4> QED
        BY <3>1, <3>2, <4>1
  <2> QED
    BY <2>3, <2>4 DEF Queued
<1> QED
  BY <1>1, <1>2 DEF RemoveTask

LEMMA ScheduleKeeps ==
  ASSUME IdleTypeOK, NEW k \in Kinds, ScheduleTask(k)
  PROVE  /\ added' = added + 1 /\ added' \in 0..MaxIdleTasks
         /\ tasks' \in Seq(Tasks(added'))
         /\ \A x : Queued(x) => Queued(x)'
         /\ Queued(Task(k, added))'
<1>1. added \in Nat /\ added' = added + 1 /\ added' \in 0..MaxIdleTasks
  BY IdleBoundAssumption DEF IdleTypeOK, ScheduleTask
<1>2. tasks \in Seq(Tasks(added))
  BY DEF IdleTypeOK, Tasks
<1>3. Task(k, added') \in Tasks(added') /\ Tasks(added) \subseteq Tasks(added')
  BY <1>1 DEF Tasks, Task
<1>4. tasks \in Seq(Tasks(added'))
  BY <1>2, <1>3, SeqMonotonic
<1> QED
  <2> DEFINE t == Task(k, added')
  <2>1. tasks' = Append(tasks, t)
    BY DEF ScheduleTask
  <2>2. /\ tasks' \in Seq(Tasks(added')) /\ Len(tasks') = Len(tasks) + 1
        /\ \A p \in 1..Len(tasks) : tasks'[p] = tasks[p]
        /\ tasks'[Len(tasks) + 1] = t
    BY <1>3, <1>4, <2>1, AppendProperties
  <2>3. Len(tasks) \in Nat
    BY <1>2
  <2> QED
    BY <1>1, <2>2, <2>3 DEF Queued

LEMMA TakeKeeps ==
  ASSUME NEW S, tasks \in Seq(S), tasks # <<>>, tasks' = Tail(tasks)
  PROVE  /\ Head(tasks) \in S /\ tasks' \in Seq(S)
         /\ \A x : Queued(x) => Queued(x)' \/ x = Head(tasks)
<1>1. Len(tasks) \in Nat \ {0} /\ Head(tasks) = tasks[1]
  BY EmptySeq
<1>2. /\ Head(tasks) \in S /\ tasks' \in Seq(S) /\ Len(tasks') = Len(tasks) - 1
      /\ \A i \in 1..(Len(tasks) - 1) : tasks'[i] = tasks[i + 1]
  BY HeadTailProperties
<1>3. ASSUME NEW p \in 1..Len(tasks), p # 1
      PROVE  \E q \in 1..Len(tasks') : tasks'[q] = tasks[p]
  <2>1. p - 1 \in 1..(Len(tasks) - 1) /\ (p - 1) + 1 = p
    BY <1>3
  <2> QED
    BY <1>2, <2>1
<1> QED
  BY <1>1, <1>2, <1>3 DEF Queued

-----------------------------------------------------------------------------
Live(k, i) ==
  \/ Queued(Task(k, i))
  \/ running = Task(k, i) /\ step \in {"event", "clear"}
OneTimer == timers = IF timerId THEN 1 ELSE 0

LiveIds == \A k \in IdleKinds : taskID[k] # NO_TASK_ID => Live(k, taskID[k])

LEMMA IdsAreLiveParts ==
  (IdsAreLive <=> OneTimer /\ LiveIds) /\ (IdsAreLive' <=> OneTimer' /\ LiveIds')
  BY DEF IdsAreLive, Live, LiveIds, Queued, OneTimer

\* IdleTaskAdd and IdleTaskRemove, when nothing but the ids and the queue changes.
LEMMA AddKeeps ==
  ASSUME IdleIInv, NEW k \in IdleKinds, IdleTaskAdd(k),
         UNCHANGED <<firstVars, timerVars, workerVars, frameTid, stopAt>>,
         framePc' \in [FrameNotifiers -> {"out", "test", "mark", "schedule", "store", "testId",
                           "setPending", "progress", "displayed"}]
  PROVE  IdleIInv'
<1> USE DEF IdleIInv, NO_TASK_ID, firstVars, timerVars, workerVars
<1>1. CASE taskID[k] # NO_TASK_ID
  BY <1>1 DEF IdleTaskAdd, IdleTypeOK, IdsApart, IdsAreLive
<1>2. CASE taskID[k] = NO_TASK_ID
  <2>1. /\ ScheduleTask(k) /\ k \in Kinds
        /\ taskID' = [taskID EXCEPT ![k] = added'] /\ taskID \in [IdleKinds -> 0..added]
    BY <1>2 DEF IdleTaskAdd, Kinds, IdleTypeOK
  <2>2. /\ added' = added + 1 /\ added' \in 0..MaxIdleTasks
        /\ tasks' \in Seq(Tasks(added'))
        /\ \A x : Queued(x) => Queued(x)'
        /\ Queued(Task(k, added))'
    BY <2>1, ScheduleKeeps
  <2>3. added \in Nat
    BY IdleBoundAssumption DEF IdleTypeOK
  <2>4. IdleTypeOK'
    BY <2>1, <2>2, <2>3 DEF IdleTypeOK, Tasks
  <2>5. IdsApart'
    BY <2>1, <2>2, <2>3 DEF IdleTypeOK, IdsApart
  <2>6. taskID'[k] = added' /\ \A l \in IdleKinds \ {k} : taskID'[l] = taskID[l]
    BY <2>1
  <2>7. \A l \in IdleKinds : \A i : Live(l, i) => Live(l, i)'
    BY <2>2 DEF Live
  <2>8. LiveIds'
    <3> SUFFICES ASSUME NEW l \in IdleKinds, taskID'[l] # NO_TASK_ID
                 PROVE  Live(l, taskID[l])'
      BY DEF LiveIds
    <3>1. CASE l = k
      BY <2>2, <2>6, <3>1 DEF Live
    <3>2. CASE l # k
      BY <2>6, <2>7, <3>2, IdsAreLiveParts DEF LiveIds
    <3> QED
      BY <3>1, <3>2
  <2> QED
    BY <2>4, <2>5, <2>8, IdsAreLiveParts DEF OneTimer
<1> QED
  BY <1>1, <1>2

LEMMA RemoveIdKeeps ==
  ASSUME IdleIInv, NEW k \in IdleKinds, IdleTaskRemove(k)
  PROVE  /\ taskID' \in [IdleKinds -> 0..added]
         /\ tasks' \in Seq([id : 1..added, kind : Kinds])
         /\ taskID' = [taskID EXCEPT ![k] = NO_TASK_ID]
         /\ \A l \in IdleKinds \ {k} : \A x :
              x.id = taskID[l] /\ x.id # NO_TASK_ID /\ Queued(x) => Queued(x)'
<1>1. /\ taskID \in [IdleKinds -> 0..added] /\ added \in Nat
      /\ tasks \in Seq([id : 1..added, kind : Kinds])
      /\ taskID' = [taskID EXCEPT ![k] = NO_TASK_ID]
  BY IdleBoundAssumption DEF IdleIInv, IdleTypeOK, IdleTaskRemove
<1>2. taskID' \in [IdleKinds -> 0..added]
  BY <1>1 DEF NO_TASK_ID
<1>3. CASE taskID[k] = NO_TASK_ID
  <2>1. UNCHANGED tasks
    BY <1>3 DEF IdleTaskRemove
  <2> QED
    BY <1>1, <1>2, <2>1 DEF Queued
<1>4. CASE taskID[k] # NO_TASK_ID
  <2>1. RemoveTask(taskID[k])
    BY <1>4 DEF IdleTaskRemove
  <2>2. /\ tasks' \in Seq([id : 1..added, kind : Kinds])
        /\ \A x : Queued(x) /\ x.id # taskID[k] => Queued(x)'
    BY <1>1, <2>1, RemoveKeeps
  <2>3. \A l \in IdleKinds \ {k} : taskID[l] # taskID[k]
    BY <1>4 DEF IdleIInv, IdsApart
  <2> QED
    BY <1>1, <1>2, <2>2, <2>3
<1> QED
  BY <1>3, <1>4

\* When the id of one kind is forgotten and the tasks of the other kinds stay.
LEMMA OthersStayLive ==
  ASSUME IdleIInv, NEW k \in IdleKinds, taskID' = [taskID EXCEPT ![k] = NO_TASK_ID],
         \A l \in IdleKinds \ {k} : taskID[l] # NO_TASK_ID /\ Live(l, taskID[l]) =>
           Queued(Task(l, taskID[l]))' \/ Live(l, taskID[l])'
  PROVE  LiveIds'
<1> SUFFICES ASSUME NEW l \in IdleKinds, taskID'[l] # NO_TASK_ID PROVE Live(l, taskID[l])'
  BY DEF LiveIds
<1>1. taskID \in [IdleKinds -> 0..added]
  BY DEF IdleIInv, IdleTypeOK
<1>2. l # k /\ taskID'[l] = taskID[l]
  BY <1>1 DEF NO_TASK_ID
<1>3. Live(l, taskID[l])
  BY <1>2, IdsAreLiveParts DEF IdleIInv, LiveIds
<1> QED
  BY <1>2, <1>3 DEF Live

-----------------------------------------------------------------------------
LEMMA NotifyingKeeps ==
  ASSUME IdleIInv, NEW n \in FrameNotifiers, NotifyFirstFrame(n) \/ Notifying(n)
  PROVE  IdleIInv'
<1> USE DEF FrameGoes, firstVars, timerVars, workerVars, frameVars
<1>0. IdleTypeOK /\ IdsApart /\ IdsAreLive /\ added \in Nat
  BY IdleBoundAssumption DEF IdleIInv, IdleTypeOK
<1>1. CASE NotifyFirstFrame(n) \/ TestNotified(n) \/ TestFirstId(n)
  <2>1. UNCHANGED <<taskID, firstFrameId, tasks, running, step, timers, timerId, frameTid, added>>
    BY <1>1 DEF NotifyFirstFrame, TestNotified, TestFirstId
  <2>2. IdleTypeOK'
    <3>1. CASE NotifyFirstFrame(n)
      BY <1>0, <3>1 DEF NotifyFirstFrame, IdleTypeOK
    <3>2. CASE TestNotified(n)
      BY <1>0, <3>2 DEF TestNotified, IdleTypeOK
    <3>3. CASE TestFirstId(n)
      BY <1>0, <3>3 DEF TestFirstId, IdleTypeOK
    <3> QED
      BY <1>1, <3>1, <3>2, <3>3
  <2> QED
    BY <1>0, <2>1, <2>2 DEF IdleIInv, IdsApart, IdsAreLive
<1>2. CASE MarkNotified(n) \/ SetFirstPending(n)
  <2>1. UNCHANGED <<taskID, firstFrameId, tasks, running, step, timers, timerId, frameTid, added>>
    BY <1>2 DEF MarkNotified, SetFirstPending
  <2>2. IdleTypeOK'
    BY <1>0, <1>2 DEF MarkNotified, SetFirstPending, IdleTypeOK
  <2> QED
    BY <1>0, <2>1, <2>2 DEF IdleIInv, IdsApart, IdsAreLive
<1>3. CASE ScheduleFirst(n)
  <2>1. /\ ScheduleTask("first") /\ "first" \in Kinds
        /\ UNCHANGED <<taskID, firstVars, timerVars, workerVars, stopAt>>
        /\ framePc' = [framePc EXCEPT ![n] = "store"]
        /\ frameTid' = [frameTid EXCEPT ![n] = added']
    BY <1>3 DEF ScheduleFirst, Kinds
  <2>2. /\ added' = added + 1 /\ added' \in 0..MaxIdleTasks
        /\ tasks' \in Seq(Tasks(added'))
        /\ \A x : Queued(x) => Queued(x)'
    BY <1>0, <2>1, ScheduleKeeps
  <2>3. IdleTypeOK'
    BY <1>0, <2>1, <2>2 DEF IdleTypeOK, Tasks
  <2>4. IdsApart'
    BY <1>0, <2>1, <2>2 DEF IdleTypeOK, IdsApart
  <2>5. LiveIds' /\ OneTimer'
    BY <1>0, <2>1, <2>2, IdsAreLiveParts DEF LiveIds, Live, OneTimer
  <2> QED
    BY <2>3, <2>4, <2>5, IdsAreLiveParts DEF IdleIInv
<1>4. CASE StoreFirstId(n)
  <2>1. firstFrameId' = frameTid[n]
        /\ UNCHANGED <<taskID, tasks, running, step, timers, timerId, frameTid, added>>
    BY <1>4 DEF StoreFirstId
  <2>2. IdleTypeOK'
    BY <1>0, <1>4 DEF StoreFirstId, IdleTypeOK
  <2> QED
    BY <1>0, <2>1, <2>2 DEF IdleIInv, IdsApart, IdsAreLive
<1>5. CASE AddProgress(n)
  <2>1. IdleTaskAdd("progress") /\ "progress" \in IdleKinds
    BY <1>5 DEF AddProgress, IdleKinds
  <2> QED
    BY <1>0, <1>5, <2>1, AddKeeps DEF AddProgress, IdleTypeOK, IdleIInv
<1>6. CASE AddDisplayed(n)
  <2>1. "displayed" \in IdleKinds /\ UNCHANGED <<firstVars, timerVars, workerVars, frameTid, stopAt>>
        /\ framePc' \in [FrameNotifiers -> {"out", "test", "mark", "schedule", "store", "testId",
                           "setPending", "progress", "displayed"}]
    BY <1>0, <1>6 DEF AddDisplayed, IdleKinds, IdleTypeOK
  <2>2. CASE IdleTaskAdd("displayed")
    BY <1>0, <2>1, <2>2, AddKeeps DEF IdleIInv
  <2>3. CASE UNCHANGED <<tasks, added, taskID>>
    BY <1>0, <2>1, <2>3 DEF IdleIInv, IdleTypeOK, IdsApart, IdsAreLive
  <2> QED
    BY <1>6, <2>2, <2>3 DEF AddDisplayed
<1> QED
  BY <1>1, <1>2, <1>3, <1>4, <1>5, <1>6 DEF Notifying

LEMMA WorkerKeeps ==
  ASSUME IdleIInv, Worker
  PROVE  IdleIInv'
<1> USE DEF firstVars, timerVars, workerVars, frameVars, Ends
<1>0. IdleTypeOK /\ IdsApart /\ LiveIds /\ OneTimer /\ added \in Nat
  BY IdleBoundAssumption, IdsAreLiveParts DEF IdleIInv, IdleTypeOK
<1>1. CASE TakeIdleTask
  <2>1. tasks # <<>> /\ tasks' = Tail(tasks) /\ running' = Head(tasks)
        /\ step = "none" /\ step' = "event"
        /\ UNCHANGED <<taskID, firstVars, timerVars, frameVars, stopAt, added>>
    BY <1>1 DEF TakeIdleTask
  <2>2. /\ running' \in Tasks(added) /\ tasks' \in Seq(Tasks(added))
        /\ \A x : Queued(x) => Queued(x)' \/ x = running'
    BY <1>0, <2>1, TakeKeeps DEF IdleTypeOK, Tasks
  <2>3. IdleTypeOK'
    BY <1>0, <2>1, <2>2 DEF IdleTypeOK, Tasks
  <2>4. LiveIds'
    BY <1>0, <2>1, <2>2 DEF LiveIds, Live
  <2> QED
    BY <1>0, <2>1, <2>3, <2>4, IdsAreLiveParts DEF IdleIInv, IdsApart, OneTimer
<1>2. CASE TriggerIdleEvent
  BY <1>0, <1>2, IdsAreLiveParts
     DEF TriggerIdleEvent, IdleIInv, IdleTypeOK, IdsApart, LiveIds, Live, Queued, OneTimer
<1>3. CASE ProgressClears
  <2>1. /\ taskID' = [taskID EXCEPT !["progress"] = NO_TASK_ID] /\ "progress" \in IdleKinds
        /\ running.kind = "progress" /\ step' = "timerTest"
        /\ UNCHANGED <<firstVars, timerVars, tasks, running, frameVars, stopAt, added>>
    BY <1>3 DEF ProgressClears, IdleTaskClearFlags, IdleKinds
  <2>2. taskID' \in [IdleKinds -> 0..added]
    BY <1>0, <2>1 DEF IdleTypeOK, NO_TASK_ID
  <2>3. IdleTypeOK'
    BY <1>0, <2>1, <2>2 DEF IdleTypeOK
  <2>4. IdsApart'
    BY <1>0, <2>1 DEF IdleTypeOK, IdsApart
  <2>5. \A l \in IdleKinds \ {"progress"} : Live(l, taskID[l]) => Queued(Task(l, taskID[l]))'
    BY <2>1 DEF Live, Task, Queued
  <2>6. LiveIds'
    BY <2>1, <2>5, OthersStayLive
  <2> QED
    BY <1>0, <2>1, <2>3, <2>4, <2>6, IdsAreLiveParts DEF IdleIInv, OneTimer
<1>4. CASE TimerIsRunning
  <2>1. step = "timerTest" /\ UNCHANGED <<taskID, firstVars, timerVars, tasks, frameVars, stopAt, added>>
    BY <1>4 DEF TimerIsRunning
  <2>2. IdleTypeOK'
    BY <1>0, <1>4 DEF TimerIsRunning, IdleTypeOK
  <2>3. LiveIds'
    BY <1>0, <2>1 DEF LiveIds, Live, Queued
  <2> QED
    BY <1>0, <2>1, <2>2, <2>3, IdsAreLiveParts DEF IdleIInv, IdsApart, OneTimer
<1>5. CASE TimerAdd
  <2>1. step = "timerAdd" /\ step' = "none" /\ running' = NoTask /\ timerId' = TRUE
        /\ timers' = (IF timerId THEN timers ELSE timers + 1)
        /\ UNCHANGED <<taskID, firstVars, tasks, frameVars, stopAt, added>>
    BY <1>5 DEF TimerAdd
  <2>2. timers' = 1 /\ OneTimer'
    BY <1>0, <2>1 DEF OneTimer
  <2>3. IdleTypeOK'
    BY <1>0, <2>1, <2>2 DEF IdleTypeOK
  <2>4. LiveIds'
    BY <1>0, <2>1 DEF LiveIds, Live, Queued
  <2> QED
    BY <1>0, <2>1, <2>2, <2>3, <2>4, IdsAreLiveParts DEF IdleIInv, IdsApart
<1>6. CASE DisplayedClears
  <2>1. /\ IdleTaskRemove("displayed") /\ "displayed" \in IdleKinds
        /\ running.kind = "displayed" /\ step' = "none" /\ running' = NoTask
        /\ UNCHANGED <<firstVars, timerVars, frameVars, stopAt, added>>
    BY <1>6 DEF DisplayedClears, IdleKinds
  <2>2. /\ taskID' \in [IdleKinds -> 0..added]
        /\ tasks' \in Seq([id : 1..added, kind : Kinds])
        /\ taskID' = [taskID EXCEPT !["displayed"] = NO_TASK_ID]
        /\ \A l \in IdleKinds \ {"displayed"} : \A x :
              x.id = taskID[l] /\ x.id # NO_TASK_ID /\ Queued(x) => Queued(x)'
    BY <2>1, RemoveIdKeeps
  <2>3. IdleTypeOK'
    BY <1>0, <2>1, <2>2 DEF IdleTypeOK
  <2>4. IdsApart'
    BY <1>0, <2>1, <2>2 DEF IdleTypeOK, IdsApart
  <2>5. \A l \in IdleKinds \ {"displayed"} :
          taskID[l] # NO_TASK_ID /\ Live(l, taskID[l]) => Queued(Task(l, taskID[l]))'
    <3> SUFFICES ASSUME NEW l \in IdleKinds \ {"displayed"}, taskID[l] # NO_TASK_ID, Live(l, taskID[l])
                 PROVE  Queued(Task(l, taskID[l]))'
      OBVIOUS
    <3>1. running # Task(l, taskID[l]) /\ Task(l, taskID[l]).id = taskID[l]
      BY <2>1 DEF Task
    <3>2. Queued(Task(l, taskID[l])) /\ taskID'[l] = taskID[l]
      BY <1>0, <2>2, <3>1 DEF Live, IdleTypeOK
    <3>3. PICK x : x = Task(l, taskID[l])
      OBVIOUS
    <3>4. Queued(x)'
      BY <2>2, <3>1, <3>2, <3>3
    <3> QED
      BY <3>2, <3>3, <3>4 DEF Task
  <2>6. LiveIds'
    BY <2>1, <2>2, <2>5, OthersStayLive
  <2> QED
    BY <1>0, <2>1, <2>3, <2>4, <2>6, IdsAreLiveParts DEF IdleIInv, OneTimer
<1>7. CASE FirstClearsId
  <2>1. /\ running.kind = "first" /\ firstFrameId' = NO_TASK_ID
        /\ UNCHANGED <<taskID, firstFramePending, decoderHandleNotified, timerVars, tasks,
                       running, frameVars, stopAt, added>>
    BY <1>7 DEF FirstClearsId
  <2>2. IdleTypeOK'
    BY <1>0, <1>7 DEF FirstClearsId, IdleTypeOK, NO_TASK_ID
  <2>3. \A k \in IdleKinds : running # Task(k, taskID[k])
    BY <2>1 DEF Task, IdleKinds
  <2>4. LiveIds'
    BY <1>0, <2>1, <2>3 DEF LiveIds, Live, Queued
  <2> QED
    BY <1>0, <2>1, <2>2, <2>4, IdsAreLiveParts DEF IdleIInv, IdsApart, OneTimer
<1>8. CASE FirstClearsPending
  <2>1. step = "clearPending"
        /\ UNCHANGED <<taskID, firstFrameId, decoderHandleNotified, timerVars, tasks,
                       frameVars, stopAt, added>>
    BY <1>8 DEF FirstClearsPending
  <2>2. IdleTypeOK'
    BY <1>0, <1>8 DEF FirstClearsPending, IdleTypeOK
  <2>3. LiveIds'
    BY <1>0, <2>1 DEF LiveIds, Live, Queued
  <2> QED
    BY <1>0, <2>1, <2>2, <2>3, IdsAreLiveParts DEF IdleIInv, IdsApart, OneTimer
<1> QED
  BY <1>1, <1>2, <1>3, <1>4, <1>5, <1>6, <1>7, <1>8 DEF Worker

\* Stop removes the task of one kind and forgets its id.
LEMMA StopRemovalKeeps ==
  ASSUME IdleIInv, NEW k \in IdleKinds, IdleTaskRemove(k),
         UNCHANGED <<firstVars, timerVars, workerVars, frameVars, added>>,
         stopAt' \in {"removeTimer", "destroy"}
  PROVE  IdleIInv'
<1> USE DEF firstVars, timerVars, workerVars, frameVars
<1>0. IdleTypeOK /\ IdsApart /\ LiveIds /\ OneTimer /\ added \in Nat
  BY IdleBoundAssumption, IdsAreLiveParts DEF IdleIInv, IdleTypeOK
<1>1. /\ taskID' \in [IdleKinds -> 0..added]
      /\ tasks' \in Seq([id : 1..added, kind : Kinds])
      /\ taskID' = [taskID EXCEPT ![k] = NO_TASK_ID]
      /\ \A l \in IdleKinds \ {k} : \A x :
           x.id = taskID[l] /\ x.id # NO_TASK_ID /\ Queued(x) => Queued(x)'
  BY RemoveIdKeeps
<1>2. IdleTypeOK'
  BY <1>0, <1>1 DEF IdleTypeOK
<1>3. IdsApart'
  BY <1>0, <1>1 DEF IdleTypeOK, IdsApart
<1>4. ASSUME NEW l \in IdleKinds \ {k}, taskID[l] # NO_TASK_ID, Live(l, taskID[l])
      PROVE  Live(l, taskID[l])'
  <2>1. taskID'[l] = taskID[l] /\ Task(l, taskID[l]).id = taskID[l]
    BY <1>0, <1>1, <1>4 DEF Task, IdleTypeOK
  <2>2. CASE Queued(Task(l, taskID[l]))
    <3>1. PICK x : x = Task(l, taskID[l])
      OBVIOUS
    <3>2. Queued(x)'
      BY <1>1, <1>4, <2>1, <2>2, <3>1
    <3> QED
      BY <2>1, <3>1, <3>2 DEF Live, Task
  <2> QED
    BY <1>4, <2>1, <2>2 DEF Live, Task
<1>5. LiveIds'
  BY <1>1, <1>4, OthersStayLive
<1> QED
  BY <1>0, <1>2, <1>3, <1>5, IdsAreLiveParts DEF IdleIInv, OneTimer

LEMMA IdleStopKeeps ==
  ASSUME IdleIInv, IdleStop \/ IdleStopBegin \/ PlaybackStarts
  PROVE  IdleIInv'
<1> USE DEF firstVars, timerVars, workerVars, frameVars, StopGoesOn
<1>0. IdleTypeOK /\ IdsApart /\ LiveIds /\ OneTimer /\ added \in Nat
  BY IdleBoundAssumption, IdsAreLiveParts DEF IdleIInv, IdleTypeOK
<1>1. CASE StopRemovesProgress
  BY <1>1, StopRemovalKeeps DEF StopRemovesProgress, IdleKinds
<1>2. CASE StopRemovesDisplayed
  BY <1>2, StopRemovalKeeps DEF StopRemovesDisplayed, IdleKinds
<1>3. CASE TimerRemove
  <2>1. timerId' = FALSE /\ stopAt' = "testFirst"
        /\ UNCHANGED <<taskID, firstVars, tasks, workerVars, frameVars, added>>
    BY <1>3 DEF TimerRemove
  <2>2. timers' = 0 /\ OneTimer'
    BY <1>0, <1>3 DEF TimerRemove, OneTimer
  <2>3. IdleTypeOK'
    BY <1>0, <2>1, <2>2 DEF IdleTypeOK
  <2> QED
    BY <1>0, <2>1, <2>2, <2>3, IdsAreLiveParts DEF IdleIInv, IdsApart, LiveIds, Live, Queued
<1>4. CASE StopRemovesFirst
  <2>1. RemoveTask(firstFrameId) /\ stopAt' = "clearPending"
        /\ UNCHANGED <<taskID, firstVars, timerVars, workerVars, frameVars, added>>
    BY <1>4 DEF StopRemovesFirst
  <2>2. /\ tasks' \in Seq(Tasks(added))
        /\ \A x : Queued(x) /\ x.id # firstFrameId => Queued(x)'
    BY <1>0, <2>1, RemoveKeeps DEF IdleTypeOK, Tasks
  <2>3. IdleTypeOK'
    BY <1>0, <2>1, <2>2 DEF IdleTypeOK, Tasks
  <2>4. ASSUME NEW k \in IdleKinds, taskID[k] # NO_TASK_ID
        PROVE  Live(k, taskID[k])'
    <3>1. PICK x : x = Task(k, taskID[k])
      OBVIOUS
    <3>2. x.id # firstFrameId
      BY <1>0, <2>4, <3>1 DEF IdsApart, Task
    <3>3. Queued(x) => Queued(x)'
      BY <2>2, <3>2
    <3>4. Queued(x) \/ (running = x /\ step \in {"event", "clear"})
      BY <1>0, <2>4, <3>1 DEF LiveIds, Live
    <3> QED
      BY <2>1, <3>1, <3>3, <3>4 DEF Live, Task
  <2>5. LiveIds'
    BY <2>1, <2>4 DEF LiveIds
  <2> QED
    BY <1>0, <2>1, <2>3, <2>5, IdsAreLiveParts DEF IdleIInv, IdsApart, OneTimer
<1>5. CASE \/ IdleStopBegin \/ PlaybackStarts \/ StopTestsFirst \/ DestroyPipeline
           \/ StopClearsFirstPending
  <2>1. UNCHANGED <<taskID, firstFrameId, timerVars, tasks, workerVars, frameVars, added>>
    BY <1>5 DEF IdleStopBegin, PlaybackStarts, StopTestsFirst, DestroyPipeline,
                StopClearsFirstPending
  <2>2. IdleTypeOK'
    BY <1>0, <1>5 DEF IdleStopBegin, PlaybackStarts, StopTestsFirst, DestroyPipeline,
                      StopClearsFirstPending, IdleTypeOK
  <2> QED
    BY <1>0, <2>1, <2>2, IdsAreLiveParts
       DEF IdleIInv, IdsApart, LiveIds, Live, Queued, OneTimer
<1>6. CASE StopClearsFirstId
  <2>1. /\ firstFrameId' = NO_TASK_ID
        /\ UNCHANGED <<taskID, timerVars, tasks, workerVars, frameVars, added>>
    BY <1>6 DEF StopClearsFirstId
  <2>2. IdleTypeOK'
    BY <1>0, <1>6 DEF StopClearsFirstId, IdleTypeOK, NO_TASK_ID
  <2> QED
    BY <1>0, <2>1, <2>2, IdsAreLiveParts
       DEF IdleIInv, IdsApart, LiveIds, Live, Queued, OneTimer
<1> QED
  BY <1>1, <1>2, <1>3, <1>4, <1>5, <1>6 DEF IdleStop

LEMMA IdleInvariance == IdleSpec => []IdleIInv
<1>1. IdleInit => IdleIInv
  <2> SUFFICES ASSUME IdleInit PROVE IdleIInv
    OBVIOUS
  <2>1. IdleTypeOK
    <3>1. tasks \in Seq([id : 1..added, kind : Kinds])
      BY EmptySeq DEF IdleInit
    <3>2. /\ taskID \in [IdleKinds -> 0..added] /\ frameTid \in [FrameNotifiers -> 0..added]
          /\ added \in 0..MaxIdleTasks /\ firstFrameId \in 0..added /\ timers \in Nat
      BY IdleBoundAssumption DEF IdleInit, NO_TASK_ID
    <3> QED
      BY <3>1, <3>2 DEF IdleInit, IdleTypeOK
  <2>2. IdsApart /\ IdsAreLive
    BY DEF IdleInit, IdsApart, IdsAreLive
  <2> QED
    BY <2>1, <2>2 DEF IdleIInv
<1>2. IdleIInv /\ [IdleNext]_idleVars => IdleIInv'
  <2> SUFFICES ASSUME IdleIInv, [IdleNext]_idleVars PROVE IdleIInv'
    OBVIOUS
  <2>1. CASE UNCHANGED idleVars
    BY <2>1 DEF idleVars, firstVars, timerVars, workerVars, frameVars, IdleIInv, IdleTypeOK,
                IdsApart, IdsAreLive
  <2> QED
    BY <2>1, NotifyingKeeps, WorkerKeeps, IdleStopKeeps DEF IdleNext
<1> QED
  BY <1>1, <1>2, PTL DEF IdleSpec

\* However the first-frame notifications, the scheduler's thread and Stop
\* interleave, an id that an idle task keeps is the one of a task that has yet to
\* run, and one progress timer runs exactly when its id is kept.
THEOREM RecordedIdsAreLive == IdleSpec => []IdsAreLive
<1>1. IdleIInv => IdsAreLive
  BY DEF IdleIInv
<1> QED
  BY <1>1, IdleInvariance, PTL

\* The type invariant of the idle tasks.
THEOREM IdleTypes == IdleSpec => []IdleTypeOK
<1>1. IdleIInv => IdleTypeOK
  BY DEF IdleIInv
<1> QED
  BY <1>1, IdleInvariance, PTL

-----------------------------------------------------------------------------
(* Stop.                                                                   *)

\* Where Stop is once it has waited for bus_sync_handler, and for bus_message.
AfterSync  == {"waitAsync", "disableCallbacks", "disconnect", "waitCallbacks", "teardown"}
AfterAsync == AfterSync \ {"waitAsync"}

\* From the wait on, the control stays disabled, so that a handler called late
\* leaves, and the bodies stay empty.
SyncQuiet ==
  stop \in AfterSync =>
    /\ ~enabled["syncControl"]
    /\ ~timedOut => ~InBody(SyncHandlers)

AsyncQuiet ==
  stop \in AfterAsync =>
    /\ ~enabled["aSyncControl"]
    /\ ~timedOut => ~InBody(BusHandlers)

StopIInv == StopTypeOK /\ SyncQuiet /\ AsyncQuiet

LEMMA ControlOfBus ==
  /\ \A h \in SyncHandlers : Control(h) = "syncControl"
  /\ \A h \in BusHandlers : Control(h) = "aSyncControl" /\ h \notin SyncHandlers
  /\ \A h \in SyncHandlers \union BusHandlers : h \notin SignalHandlers
  BY KindsAssumption DEF Control

LEMMA StepTypes == StopTypeOK /\ [StopNext]_stopVars => StopTypeOK'
<1> SUFFICES ASSUME StopTypeOK, [StopNext]_stopVars PROVE StopTypeOK'
  OBVIOUS
<1> USE DEF StopTypeOK
<1>1. ASSUME NEW h \in Callbacks, Called(h) \/ Callback(h) PROVE StopTypeOK'
  BY <1>1 DEF Called, Callback, GetScopeHelper, EnterBody, LeaveBody, CallbackGoes
<1>2. CASE PipelineCreated \/ StopBegins
  BY <1>2 DEF PipelineCreated, StopBegins, StopGoes, StopPcs
<1>3. CASE DisableSync \/ DisableAsync \/ RemoveWatch
  BY <1>3 DEF DisableSync, DisableAsync, RemoveWatch, StopGoes, StopPcs, Sets
<1>4. CASE WaitSync \/ WaitAsync \/ WaitCallbacks
  BY <1>4 DEF WaitSync, WaitAsync, WaitCallbacks, WaitForDone, StopGoes, StopPcs, Sets
<1>5. CASE DisableCallbacks \/ DisconnectSignals \/ TearDown
  BY <1>5 DEF DisableCallbacks, DisconnectSignals, TearDown, StopGoes, StopPcs, Sets
<1>6. CASE UNCHANGED stopVars
  BY <1>6 DEF stopVars
<1> QED
  BY <1>1, <1>2, <1>3, <1>4, <1>5, <1>6 DEF StopNext, StopSteps

LEMMA StepQuiet == StopIInv /\ [StopNext]_stopVars => SyncQuiet' /\ AsyncQuiet'
<1> SUFFICES ASSUME StopIInv, [StopNext]_stopVars PROVE SyncQuiet' /\ AsyncQuiet'
  OBVIOUS
<1> USE DEF StopIInv, SyncQuiet, AsyncQuiet, AfterSync, AfterAsync
<1>1. ASSUME NEW h \in Callbacks, Called(h) \/ GetScopeHelper(h) \/ LeaveBody(h)
      PROVE  SyncQuiet' /\ AsyncQuiet'
  <2>1. UNCHANGED <<enabled, stop, timedOut>>
    BY <1>1 DEF Called, GetScopeHelper, LeaveBody, CallbackGoes
  <2>2. \A g \in Callbacks : callback'[g] = "body" => callback[g] = "body"
    BY <1>1 DEF Called, GetScopeHelper, LeaveBody, CallbackGoes, StopTypeOK
  <2> QED
    BY <2>1, <2>2 DEF InBody, Callbacks
<1>2. ASSUME NEW h \in Callbacks, EnterBody(h) PROVE SyncQuiet' /\ AsyncQuiet'
  <2>1. UNCHANGED <<enabled, stop, timedOut>>
    BY <1>2 DEF EnterBody, CallbackGoes
  <2>2. \A g \in Callbacks : g # h => callback'[g] = callback[g]
    BY <1>2 DEF EnterBody, CallbackGoes, StopTypeOK
  <2>3. h \in SyncHandlers /\ ~enabled["syncControl"] => callback'[h] = "out"
    BY <1>2, ControlOfBus DEF EnterBody, CallbackGoes, StopTypeOK
  <2>4. h \in BusHandlers /\ ~enabled["aSyncControl"] => callback'[h] = "out"
    BY <1>2, ControlOfBus DEF EnterBody, CallbackGoes, StopTypeOK
  <2> QED
    BY <2>1, <2>2, <2>3, <2>4 DEF InBody, Callbacks
<1>3. CASE PipelineCreated \/ StopBegins \/ DisableSync \/ DisableAsync \/ RemoveWatch
  BY <1>3 DEF PipelineCreated, StopBegins, DisableSync, DisableAsync, RemoveWatch, StopGoes
<1>4. CASE WaitSync
  <2>1. stop' = "waitAsync" /\ enabled' = [enabled EXCEPT !["syncControl"] = FALSE]
    BY <1>4 DEF WaitSync, WaitForDone, StopGoes, Sets
  <2>2. ~enabled'["syncControl"]
    BY <2>1 DEF StopTypeOK, Controls
  <2>3. ~timedOut' => ~InBody(SyncHandlers)'
    <3> SUFFICES ASSUME ~timedOut', NEW h \in SyncHandlers, callback'[h] = "body"
                 PROVE  FALSE
      BY DEF InBody
    <3>1. callback' = callback /\ callback[h] \in {"out", "called"}
      BY <1>4, ControlOfBus DEF WaitSync, WaitForDone, Callbacks
    <3> QED
      BY <3>1
  <2> QED
    BY <2>1, <2>2, <2>3
<1>5. CASE WaitAsync
  <2>1. /\ stop = "waitAsync" /\ stop' = "disableCallbacks"
        /\ enabled' = [enabled EXCEPT !["aSyncControl"] = FALSE]
        /\ callback' = callback
        /\ ~timedOut' => ~timedOut
    BY <1>5 DEF WaitAsync, WaitForDone, StopGoes, Sets
  <2>2. ~enabled'["aSyncControl"] /\ ~enabled'["syncControl"]
    BY <2>1 DEF StopTypeOK, Controls
  <2>3. ~timedOut' => ~InBody(BusHandlers)'
    <3> SUFFICES ASSUME ~timedOut', NEW h \in BusHandlers, callback'[h] = "body"
                 PROVE  FALSE
      BY DEF InBody
    <3>1. callback' = callback /\ callback[h] \in {"out", "called"}
      BY <1>5, ControlOfBus DEF WaitAsync, WaitForDone, Callbacks
    <3> QED
      BY <3>1
  <2>4. ~timedOut' => ~InBody(SyncHandlers)'
    BY <2>1 DEF InBody
  <2> QED
    BY <2>1, <2>2, <2>3, <2>4
<1>6. CASE WaitCallbacks
  BY <1>6 DEF WaitCallbacks, WaitForDone, StopGoes, Sets, StopTypeOK, Controls, InBody
<1>7. CASE DisableCallbacks \/ DisconnectSignals \/ TearDown
  BY <1>7 DEF DisableCallbacks, DisconnectSignals, TearDown, StopGoes, Sets, StopTypeOK,
              Controls, InBody
<1>8. CASE UNCHANGED stopVars
  BY <1>8 DEF stopVars, InBody
<1> QED
  BY <1>1, <1>2, <1>3, <1>4, <1>5, <1>6, <1>7, <1>8 DEF StopNext, StopSteps, Callback

\* Whatever the number of handlers and however late they are called, none of
\* bus_sync_handler and bus_message is in its body when Stop sets the pipeline
\* to NULL, unless one of its waits reached its time limit.
THEOREM BusHandlersAreDone == StopSpec => []BusHandlersDone
<1>1. StopInit => StopIInv
  BY DEF StopInit, StopIInv, StopTypeOK, SyncQuiet, AsyncQuiet, AfterSync, AfterAsync, StopPcs
<1>2. StopIInv /\ [StopNext]_stopVars => StopIInv'
  BY StepTypes, StepQuiet DEF StopIInv
<1>3. StopIInv => BusHandlersDone
  BY DEF StopIInv, SyncQuiet, AsyncQuiet, AfterSync, AfterAsync, BusHandlersDone
<1> QED
  BY <1>1, <1>2, <1>3, PTL DEF StopSpec
=============================================================================
