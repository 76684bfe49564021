---------------------------- MODULE SinkSettings ----------------------------
(***************************************************************************)
(* InterfacePlayerRDK.cpp: volume, mute, zoom and rectangle are stored in   *)
(* the player and applied to the sinks, by the application to the sinks     *)
(* there are, and by bus_sync_handler to a sink that reaches PAUSED.  The   *)
(* volume is applied under volumeMuteMutex, the settings of the video       *)
(* without a lock.                                                         *)
(***************************************************************************)
EXTENDS Naturals

CONSTANT Volumes         \* volumes, 0 among them
ASSUME VolumesAssumption == 0 \in Volumes

VideoSettings == {"mute", "zoom", "rectangle"}
Values == {0, 1}         \* 0: not muted, no zoom, no rectangle
Full == CHOOSE v \in Volumes : v # 0   \* audioVolume = 1.0

VARIABLES
  sinkType,     \* of the video: usingRialtoSink, using_westerossink or neither
  enableRect,   \* enableRectPropertyCfg
  hasMute,      \* SetAudioProperty names a mute property; not so on Amlogic
  setting,      \* videoMuted, zoom, videoRectangle
  sinks,        \* which of audio_sink and video_sink there are
  videoSink,    \* properties of video_sink
  audioVolume, audioMuted,
  audioSink,    \* properties of audio_sink
  owner,        \* of volumeMuteMutex
  stale,        \* threads whose gSource is not audio_sink any more
  at,           \* of the application and of bus_sync_handler
  toApply,      \* settings bus_sync_handler has yet to apply
  held,         \* the value it read of the one it applies
  overlapped    \* history: settings set while bus_sync_handler applied them

sinkConfig == <<sinkType, enableRect, hasMute>>
videoVars == <<setting, videoSink, toApply, held, overlapped>>
volumeVars == <<audioVolume, audioMuted, audioSink>>
audioVars == <<volumeVars, owner, stale>>
sinkVars == <<sinkConfig, sinks, videoVars, audioVars, at>>

Threads == {"app", "handler"}

SinkTypeOK ==
  /\ sinkType \in {"rialto", "westeros", "other"}
  /\ {enableRect, hasMute, audioMuted} \subseteq BOOLEAN
  /\ setting \in [VideoSettings -> Values]
  /\ sinks \subseteq {"audio", "video"} /\ videoSink \in [VideoSettings -> Values]
  /\ audioVolume \in Volumes
  /\ audioSink \in [mute : BOOLEAN, volume : Volumes]
  /\ owner \in Threads \union {"none"}
  /\ at \in [Threads -> {"idle", "lock", "test", "setMute", "clearMute",
                          "applyVolume", "video"} \union VideoSettings]
  /\ stale \subseteq Threads
  /\ toApply \subseteq VideoSettings /\ overlapped \subseteq VideoSettings
  /\ held \in Values

SinkInit ==
  /\ sinkType \in {"rialto", "westeros", "other"}
  /\ enableRect \in BOOLEAN /\ hasMute \in BOOLEAN
  /\ sinks = {}
  /\ setting = [s \in VideoSettings |-> 0] /\ videoSink = [s \in VideoSettings |-> 0]
  /\ audioVolume = Full /\ audioMuted = FALSE
  /\ audioSink = [mute |-> FALSE, volume |-> Full]
  /\ owner = "none" /\ stale = {} /\ at = [t \in Threads |-> "idle"]
  /\ toApply = {} /\ held = 0 /\ overlapped = {}

GoesTo(t, from, to) == at[t] = from /\ at' = [at EXCEPT ![t] = to]

-----------------------------------------------------------------------------
(* Audio: SetAudioVolume, then SetVolumeOrMuteUnMute in either thread.      *)

SetAudioVolume(v) ==
  /\ GoesTo("app", "idle", "lock")
  /\ audioVolume' = v
  /\ UNCHANGED <<sinkConfig, sinks, videoVars, audioMuted, audioSink, owner, stale>>

\* A new sink has the properties that GStreamer gives it.
NewAudioSink ==
  /\ GoesTo("handler", "idle", "lock")
  /\ sinks' = sinks \union {"audio"}
  /\ audioSink' = [mute |-> FALSE, volume |-> Full]
  /\ stale' = stale \union {t \in Threads : at[t] \notin {"idle", "lock"}}
  /\ UNCHANGED <<sinkConfig, videoVars, audioVolume, audioMuted, owner>>

\* gSource is read under the lock; it is stale if there is no sink, or another
\* one comes.
LockVolume(t) ==
  /\ GoesTo(t, "lock", IF "audio" \in sinks THEN "test" ELSE "applyVolume")
  /\ owner = "none" /\ owner' = t
  /\ stale' = IF "audio" \in sinks THEN stale \ {t} ELSE stale \union {t}
  /\ UNCHANGED <<sinkConfig, sinks, videoVars, volumeVars>>

\* Lines 4438-4459: what there is to do about mute is decided, and done.
TestVolume(t) ==
  /\ GoesTo(t, "test", IF ~hasMute THEN "applyVolume"
                      ELSE IF audioVolume = 0 THEN "setMute"
                      ELSE IF audioMuted THEN "clearMute" ELSE "applyVolume")
  /\ UNCHANGED <<sinkConfig, sinks, videoVars, audioVars>>

ApplyMute(t) ==
  /\ at[t] \in {"setMute", "clearMute"}
  /\ at' = [at EXCEPT ![t] = "applyVolume"]
  /\ audioMuted' = (at[t] = "setMute")
  /\ audioSink' = IF t \in stale THEN audioSink ELSE [audioSink EXCEPT !.mute = audioMuted']
  /\ UNCHANGED <<sinkConfig, sinks, videoVars, audioVolume, owner, stale>>

\* Lines 4460-4464, and the end of SetVolumeOrMuteUnMute.
ApplyVolume(t) ==
  /\ GoesTo(t, "applyVolume", "idle")
  /\ audioSink' = IF t \in stale \/ audioMuted THEN audioSink
                  ELSE [audioSink EXCEPT !.volume = audioVolume]
  /\ owner' = "none" /\ stale' = stale \ {t}
  /\ UNCHANGED <<sinkConfig, sinks, videoVars, audioVolume, audioMuted>>

-----------------------------------------------------------------------------
(* Video.                                                                  *)

\* SetVideoMute, SetVideoZoom and SetVideoRectangle store the value; a
\* rectangle that is stored already is left.
SetVideo(s, v) ==
  /\ GoesTo("app", "idle", s)
  /\ s = "rectangle" => setting[s] # v
  /\ setting' = [setting EXCEPT ![s] = v]
  /\ overlapped' = IF s \in toApply THEN overlapped \union {s} ELSE overlapped
  /\ UNCHANGED <<sinkConfig, sinks, videoSink, toApply, held, audioVars>>

\* Which settings the application applies to a sink there is.
AppApplies(s) ==
  /\ s = "zoom" => sinkType # "rialto"
  /\ s = "rectangle" => enableRect

ApplyVideo(s) ==
  /\ GoesTo("app", s, "idle")
  /\ videoSink' = IF "video" \in sinks /\ AppApplies(s)
                  THEN [videoSink EXCEPT ![s] = setting[s]] ELSE videoSink
  /\ UNCHANGED <<sinkConfig, sinks, setting, toApply, held, overlapped, audioVars>>

\* Faulty variant: westerossink is not muted unless its rectangle is set.
HandlerApplies_NoMute ==
  CASE sinkType = "rialto" -> IF enableRect THEN {"mute", "rectangle"} ELSE {"mute"}
    [] sinkType = "westeros" /\ ~enableRect -> {"zoom"}
    [] OTHER -> VideoSettings

\* Lines 4674-4702.
HandlerApplies ==
  CASE sinkType = "rialto" -> IF enableRect THEN {"mute", "rectangle"} ELSE {"mute"}
    [] sinkType = "westeros" /\ ~enableRect -> {"mute", "zoom"}
    [] OTHER -> VideoSettings

NewVideoSink ==
  /\ GoesTo("handler", "idle", "video")
  /\ sinks' = sinks \union {"video"}
  /\ videoSink' = [s \in VideoSettings |-> 0]
  /\ toApply' = HandlerApplies
  /\ overlapped' = {}
  /\ UNCHANGED <<sinkConfig, setting, held, audioVars>>

HandlerReads(s) ==
  /\ s \in toApply
  /\ GoesTo("handler", "video", s)
  /\ held' = setting[s]
  /\ UNCHANGED <<sinkConfig, sinks, setting, videoSink, toApply, overlapped, audioVars>>

HandlerSets(s) ==
  /\ GoesTo("handler", s, IF toApply = {s} THEN "idle" ELSE "video")
  /\ videoSink' = [videoSink EXCEPT ![s] = held]
  /\ toApply' = toApply \ {s}
  /\ held' = 0
  /\ UNCHANGED <<sinkConfig, sinks, setting, overlapped, audioVars>>

\* Stop tears the streams down and resets the settings, but zoom and rectangle;
\* bus_sync_handler was waited for.
StopPlayback ==
  /\ \A t \in Threads : at[t] = "idle"
  /\ sinks' = {}
  /\ setting' = [setting EXCEPT !["mute"] = 0]
  /\ audioMuted' = FALSE /\ audioVolume' = Full
  /\ overlapped' = {}
  /\ UNCHANGED <<sinkConfig, videoSink, audioSink, toApply, held, owner, stale, at>>

-----------------------------------------------------------------------------
AudioNext ==
  \/ \E v \in Volumes : SetAudioVolume(v)
  \/ NewAudioSink
  \/ \E t \in Threads : LockVolume(t) \/ TestVolume(t) \/ ApplyMute(t) \/ ApplyVolume(t)

VideoNext ==
  \/ NewVideoSink
  \/ \E s \in VideoSettings :
       \/ \E v \in Values : SetVideo(s, v)
       \/ ApplyVideo(s) \/ HandlerReads(s) \/ HandlerSets(s)

SinkNext == AudioNext \/ VideoNext \/ StopPlayback

SinkSpec == SinkInit /\ [][SinkNext]_sinkVars

-----------------------------------------------------------------------------
AudioQuiet == \A t \in Threads : at[t] \notin {"lock", "test", "setMute", "clearMute", "applyVolume"}

(* InterfacePlayerPriv.h:203, lines 2680-2712, 4541-4571 and 4674-4702:      *)
(* however the application, bus_sync_handler and new sinks interleave, the  *)
(* sink ends up with the volume and is muted at volume 0, and on every kind *)
(* of sink what is stored for the video is in effect when the threads are   *)
(* done, unless it was set while bus_sync_handler was about to apply it.    *)
SettingsReachSinks ==
  /\ AudioQuiet /\ "audio" \in sinks =>
       /\ hasMute => audioSink.mute = (audioVolume = 0)
       /\ ~hasMute \/ audioVolume # 0 => audioSink.volume = audioVolume
  /\ "video" \in sinks /\ at["handler"] \notin {"video"} \union VideoSettings =>
       \A s \in VideoSettings :
         AppApplies(s) /\ at["app"] # s /\ s \notin overlapped =>
           videoSink[s] = setting[s]
=============================================================================
