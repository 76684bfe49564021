--------------------------- MODULE MCCdmiDecryptor ---------------------------
(***************************************************************************)
(* An audio and a video decryptor.  Audio and the first period of video     *)
(* have a PSSH each, with a second video key in the one of the video; a     *)
(* later period brings a third PSSH.                                        *)
(***************************************************************************)
EXTENDS CdmiDecryptor, TLC

CONSTANTS audio, video, a1, v1, v2, w1

AudioAndVideo == {audio, video}
FourKeys == {a1, v1, v2, w1}
ThreePsshs == a1 :> {a1} @@ v1 :> {v1, v2} @@ v2 :> {v1, v2} @@ w1 :> {w1}
=============================================================================
