------------------------- MODULE MCSourceInjection -------------------------
(***************************************************************************)
(* One injector of audio, whose buffers are forwarded to the auxiliary      *)
(* audio; calls meet no operation on the pipeline, or ConfigurePipeline, or *)
(* Stop.                                                                   *)
(***************************************************************************)
EXTENDS SourceInjection

CONSTANT i1

OneInjector == {i1}
AudioStreams == {AUDIO, AUX_AUDIO}
ConfigureOrQuiet == {{}, {"configure"}}
StopToo == {{"stop"}}
=============================================================================
