------------------------------ MODULE Monitoring ------------------------------
(***************************************************************************)
(* What InterfacePlayerRDK says of the position: GetPositionMilliseconds    *)
(* with the start of the segment that it asks for once per flush, and       *)
(* MonitorAV, which the progress timer calls and which compares each track  *)
(* with its sample before.  Sinks and source, which answer the queries, are *)
(* external; times are ticks.                                               *)
(***************************************************************************)
EXTENDS Integers, FiniteSets

CONSTANTS
  Rates,        \* of Flush; 1 is GST_NORMAL_PLAY_RATE
  SeekTo,       \* positions of Flush
  Ahead, Behind,  \* monitorAvsyncThresholdPositiveMs and NegativeMs
  MaxShown,     \* bound: ticks shown since a seek
  MaxFlushes, MaxSamples  \* bounds

\* Rate 0 is never asked of Flush, Pause is.
ASSUME MonitoringAssumption ==
  /\ {MaxShown, MaxFlushes, MaxSamples, Ahead} \subseteq Nat /\ Behind \in Int
  /\ SeekTo \subseteq Nat /\ Rates \subseteq Int \ {0}

VARIABLES
  config,         \* progressive, enablePTSReStamp, enableGstPosQuery
  rate,
  segment,        \* where the source was sought to
  restamped,      \* qtdemux was told to restamp: it starts at 0
  displayed,      \* ticks of each track shown since the seek
  segmentStart,
  resetPosition, pendingSeek,  \* of the video stream
  seekPosition,
  av_position, description,    \* of monitorAVstate
  sought, moved,  \* history: whether a seek came since the sample before, or
                  \* else the tracks that moved
  compared,       \* history: the tracks that the sample before read
  guessed,        \* history: the source did not answer, or Flush failed after
                  \* it had set the rate
  flushes, samples

AVTracks == {"video", "audio"}

clockVars == <<displayed, moved>>
seekVars == <<rate, segment, seekPosition, pendingSeek, resetPosition, flushes>>
monitorVars == <<av_position, description, compared, samples>>
positionVars == <<segmentStart, guessed>>
monitoringVars == <<config, restamped, sought, clockVars, seekVars, monitorVars,
                    positionVars>>

MonitoringInit ==
  /\ config \in [progressive : BOOLEAN, restamp : BOOLEAN, posQuery : BOOLEAN]
  /\ rate = 1 /\ segment = 0 /\ restamped = FALSE
  /\ displayed = [t \in AVTracks |-> 0] /\ segmentStart = 0
  /\ resetPosition = TRUE /\ pendingSeek = FALSE /\ seekPosition = 0
  /\ av_position = [t \in AVTracks |-> 0] /\ description = "none"
  /\ moved = {} /\ sought = FALSE /\ compared = {} /\ guessed = FALSE /\ flushes = 0 /\ samples = 0

\* What a sink answers to a position query.  Fragments are sent restamped,
\* by qtdemux or by the application, when they are played at a rate.
Position(t) ==
  IF restamped THEN displayed[t]
  ELSE segment + (IF config.progressive THEN rate ELSE 1) * displayed[t]

-----------------------------------------------------------------------------
\* The pipeline shows some more; a track may stand, or fall behind.
ShowsMore ==
  /\ ~resetPosition
  /\ \E d \in [AVTracks -> 0..1] :
       /\ displayed' = [t \in AVTracks |-> displayed[t] + d[t]]
       /\ \A t \in AVTracks : displayed'[t] <= MaxShown
       /\ moved' = IF sought THEN {} ELSE moved \union {t \in AVTracks : d[t] > 0}
  /\ UNCHANGED <<config, restamped, sought, seekVars, monitorVars, positionVars>>

\* InterfacePlayerRDK::Flush: the rate is set first, the position is kept for
\* later, and the pipeline is sought if it plays or is paused.
FlushPosition(position, r) ==
  /\ flushes < MaxFlushes /\ flushes' = flushes + 1
  /\ rate' = r /\ seekPosition' = position
  /\ sought' = TRUE /\ moved' = {}
  /\ \/ /\ guessed' = TRUE               \* neither playing nor paused: it returns
        /\ UNCHANGED <<pendingSeek, resetPosition, segment, displayed>>
     \/ /\ resetPosition' = TRUE /\ guessed' = FALSE
        /\ \/ /\ pendingSeek' = FALSE /\ displayed' = [t \in AVTracks |-> 0]
              /\ segment' \in {position} \union
                   (IF r # 1 /\ ~config.progressive THEN {0} ELSE {})  \* simulator and Rialto
           \/ pendingSeek' = TRUE /\ UNCHANGED <<segment, displayed>>  \* the seek failed
  /\ UNCHANGED <<config, restamped, segmentStart, monitorVars>>

\* SendQtDemuxOverrideEvent
EnableOverride == ~config.restamp /\ rate # 1

\* Faulty variant: the start is left alone when qtdemux restamps.
SegmentStartAtFirst_Kept ==
  segmentStart' = IF config.posQuery /\ ~EnableOverride THEN -1 ELSE segmentStart

\* -1: it is to be asked for.
SegmentStartAtFirst == segmentStart' = IF config.posQuery /\ ~EnableOverride THEN -1 ELSE 0

\* SendGstEvents, with the first video buffer after a flush.
SendFirstBuffer ==
  /\ resetPosition
  /\ resetPosition' = FALSE /\ pendingSeek' = FALSE
  /\ IF pendingSeek /\ seekPosition > 0
     THEN segment' = seekPosition /\ displayed' = [t \in AVTracks |-> 0]
     ELSE UNCHANGED <<segment, displayed>>
  /\ restamped' = (EnableOverride /\ ~config.progressive)
  /\ SegmentStartAtFirst
  /\ sought' = TRUE /\ moved' = {}
  /\ UNCHANGED <<config, rate, seekPosition, flushes, monitorVars, guessed>>

-----------------------------------------------------------------------------
\* GetPositionMilliseconds asks for the start if it has to ...
AskSegmentStart ==
  /\ segmentStart = -1
  /\ \/ segmentStart' = segment /\ UNCHANGED guessed
     \/ segmentStart' = -1 /\ guessed' = TRUE    \* the query failed
  /\ UNCHANGED <<config, restamped, sought, clockVars, seekVars, monitorVars>>

\* ... and deducts it from what the sink says.
GetPositionMilliseconds ==
  LET played == Position("video") - (IF segmentStart > 0 THEN segmentStart ELSE 0)
  IN  played * (IF config.progressive THEN 1 ELSE rate)

-----------------------------------------------------------------------------
\* What MonitorAV makes of the tracks that answered.  A jump is never told:
\* it would need monitorAVState->happy, which nothing sets.
Describe(read) ==
  LET stood == {t \in read : Position(t) = av_position[t]}
      delta == Position("video") - Position("audio")
      both == read = AVTracks
  IN  CASE read = {}                         -> "eos"
        [] Cardinality(read) = 1             -> "trickplay"
        [] both /\ stood = AVTracks          -> "stall"
        [] both /\ stood = {"video"}         -> "video freeze"
        [] both /\ stood = {"audio"}         -> "audio drop"
        [] both /\ stood = {} /\ (delta > Ahead \/ delta < Behind) -> "avsync"
        [] OTHER                             -> "ok"

\* Faulty variant: the sample is stored with a new description only.
KeepSample_IfNew(read, d) ==
  av_position' = IF d = description THEN av_position
                 ELSE [t \in AVTracks |-> IF t \in read THEN Position(t) ELSE 0]

\* A track that was not read is taken to be at 0.
KeepSample(read, d) ==
  av_position' = [t \in AVTracks |-> IF t \in read THEN Position(t) ELSE 0]

\* The audio position is not read in trick play.  While the pipeline does not
\* play nothing is compared, and nothing is shown: that is a stutter.
MonitorAV ==
  /\ samples < MaxSamples /\ samples' = samples + 1
  /\ \E read \in SUBSET (IF rate = 1 THEN AVTracks ELSE {"video"}) :
       /\ description' = Describe(read)
       /\ KeepSample(read, description')
       /\ compared' = read
  /\ moved' = {} /\ sought' = FALSE
  /\ UNCHANGED <<config, restamped, displayed, seekVars, positionVars>>

MonitoringNext ==
  \/ ShowsMore \/ SendFirstBuffer \/ AskSegmentStart \/ MonitorAV
  \/ \E p \in SeekTo, r \in Rates : FlushPosition(p, r)

MonitoringSpec == MonitoringInit /\ [][MonitoringNext]_monitoringVars

-----------------------------------------------------------------------------
\* The source said where it starts, after the first buffer of the last flush.  A
\* progressive file that is not played at rate 1 has no start deducted.
StartKnown ==
  /\ config.posQuery /\ ~resetPosition /\ ~guessed /\ segmentStart # -1
  /\ ~(config.progressive /\ EnableOverride)

SampleIsTrue ==
  /\ description' \in {"ok", "avsync"} => compared \subseteq moved
  /\ description' \in {"stall", "video freeze"} => "video" \notin compared \intersect moved
  /\ description' \in {"stall", "audio drop"} => "audio" \notin compared \intersect moved

\* Lines 2560-2598 and 2358-2371: the position is what was shown since the
\* flush, at the rate, whatever the rates and starts before.  Lines 645-697:
\* of the tracks that the sample before read too, with no seek between, none
\* is said to play that stood, and none to stand that moved.
ToldAsPlayed ==
  [][/\ StartKnown' => GetPositionMilliseconds' = displayed'["video"] * rate'
     /\ samples' # samples /\ ~sought => SampleIsTrue]_monitoringVars
=============================================================================
