------------------------------ MODULE TextPaths ------------------------------
(***************************************************************************)
(* The two ways a subtitle takes to the renderer: TextTracks, for text that *)
(* the player hands to a parser, and SubtecBin, for text that goes through  *)
(* the pipeline.  They share no state.                                      *)
(***************************************************************************)
EXTENDS TextTracks, SubtecBin

TextPathsInit == TextInit /\ SubtecBinInit

TextPathsNext ==
  \/ TextNext /\ UNCHANGED subtecBinVars
  \/ SubtecBinNext /\ UNCHANGED textVars

TextPathsSpec == TextPathsInit /\ [][TextPathsNext]_<<textVars, subtecBinVars>>

(* Linear subtitles are shown with the playback, whichever of the two ways  *)
(* they take to the renderer: a parser sets its clock from the position     *)
(* (TtmlSubtecParser.cpp:147-182), or the transform finds how far the times *)
(* of the text are from those of the buffers (gstvipertransform.cpp:357-443).*)
TextInTime == OffsetOfPlayback /\ ShownInFragment
=============================================================================
