------------------------------- MODULE MCPlayer -------------------------------
(***************************************************************************)
(* Six parts of InterfacePlayerRDK: the control of its callbacks and how    *)
(* Stop uses it, the end of stream, the tasks of the first frame, the       *)
(* state of the pipeline, and the settings of the audio and of the video    *)
(* sink.  They share no variable, so a behaviour moves one of them, the one *)
(* `moves` names, and leaves the others as they began.                      *)
(***************************************************************************)
EXTENDS GstHandlerControl, PlayerStop, EosNotification, IdleTasks,
        PlayerPipeline, SinkSettings

CONSTANTS h1, h2, h3, w1, s1, s2, b1, c1, c2, bus, sink, d1
ThreeHandlers == {h1, h2, h3}
OneWaiter == {w1}
TwoSync == {s1, s2}
OneBus == {b1}
TwoSignals == {c1, c2}
OneNotifier == {bus}
OneSink == {sink}
OneDecoder == {d1}
AllVolumes == 0..2

VARIABLE moves
taskVars == <<vars, stopVars, eosVars, idleVars>>

\* A configuration only matters to the part that moves.
MCInit ==
  /\ Init /\ StopInit /\ EosInit /\ IdleInit /\ PipelineInit /\ SinkInit
  /\ moves \in {"control", "stop", "eos", "idle", "pipeline", "audio", "video"}
  /\ moves # "pipeline" => configVars = <<"dash", TRUE>>
  /\ moves \notin {"audio", "video"} => sinkConfig = <<"other", TRUE, TRUE>>
  /\ moves = "audio" => sinkType = "other" /\ enableRect
  /\ moves = "video" => hasMute

TasksMove ==
  /\ \/ moves = "control" /\ Next /\ UNCHANGED <<stopVars, eosVars, idleVars>>
     \/ moves = "stop" /\ StopNext /\ UNCHANGED <<vars, eosVars, idleVars>>
     \/ moves = "eos" /\ EosNext /\ UNCHANGED <<vars, stopVars, idleVars>>
     \/ moves = "idle" /\ IdleNext /\ UNCHANGED <<vars, stopVars, eosVars>>
  /\ UNCHANGED <<pipelineVars, sinkVars>>

PipelineMoves ==
  moves = "pipeline" /\ PipelineNext /\ UNCHANGED <<taskVars, sinkVars>>

SinksMove ==
  /\ \/ moves = "audio" /\ AudioNext
     \/ moves = "video" /\ VideoNext
     \/ moves \in {"audio", "video"} /\ StopPlayback
  /\ UNCHANGED <<taskVars, pipelineVars>>

MCNext == (TasksMove \/ PipelineMoves \/ SinksMove) /\ UNCHANGED moves

MCSpec == MCInit /\ [][MCNext]_<<taskVars, pipelineVars, sinkVars, moves>>
MCFairSpec == MCSpec /\ Fairness /\ IdleFairness /\ PipelineFairness
=============================================================================
