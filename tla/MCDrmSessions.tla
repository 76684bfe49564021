---------------------------- MODULE MCDrmSessions ----------------------------
(***************************************************************************)
(* What a DRM session has behind it: the playback sessions and the          *)
(* watermark tasks of one content security manager, an OCDM session, and    *)
(* the key of AesDec; with the display and network the player asks about,   *)
(* and the Thunder plugins.  The first two share mSecMutex only, and the    *)
(* destructor requires that nobody is inside a call about a session; the    *)
(* others share nothing with them: so one of them is at work in a           *)
(* behaviour.                                                               *)
(***************************************************************************)
EXTENDS ContentSecurity, WatermarkTasks, OcdmSession, AesDec, PlayerExternals,
        ThunderAccess

CONSTANTS s1, s2, keyA, keyB
TwoSlots == {s1, s2}
TwoInputs == {keyA, keyB}
TwoSpeeds == {1, 2}
TwoGraphics == {1, 2}
AudioAndVideo == {"audio", "video"}
TwoUrls == {"A", "B"}
TwoResolutions == {"1920x1080", "other"}
TwoLanguages == {"", "deu", "eng"}

VARIABLE atWork

platformVars == <<externalsVars, thunderVars>>
vars == <<csVars, wmVars, ocdmVars, aesVars, platformVars, atWork>>

\* What is not at work has one initial state.
Init ==
  /\ CSInit /\ WMInit /\ OcdmInit /\ AesInit /\ ExternalsInit /\ ThunderInit
  /\ atWork \in {"sessions", "watermark", "ocdm", "aes", "display", "network", "thunder"}
  /\ atWork \notin {"display", "network"} => ~fake /\ interface = "wlan0"
  /\ atWork # "display" => hdmi = Unplugged /\ handled.protocol = "1X"
  /\ atWork # "thunder" => ~thunder /\ shim = "watermark"

Next ==
  /\ \/ /\ \/ atWork = "sessions"  /\ CSNext   /\ UNCHANGED <<wmVars, ocdmVars, aesVars>>
           \/ atWork = "watermark" /\ WMNext   /\ UNCHANGED <<csVars, ocdmVars, aesVars>>
           \/ atWork = "ocdm"      /\ OcdmNext /\ UNCHANGED <<csVars, wmVars, aesVars>>
           \/ atWork = "aes"       /\ AesNext  /\ UNCHANGED <<csVars, wmVars, ocdmVars>>
        /\ UNCHANGED platformVars
     \/ /\ \/ atWork = "display" /\ DisplayNext /\ UNCHANGED thunderVars
           \/ atWork = "network" /\ NetworkNext /\ UNCHANGED thunderVars
           \/ atWork = "thunder" /\ ThunderNext /\ UNCHANGED externalsVars
        /\ UNCHANGED <<csVars, wmVars, ocdmVars, aesVars>>
  /\ UNCHANGED atWork

WatermarkStep(A) ==
  atWork = "watermark" /\ A /\ UNCHANGED <<csVars, ocdmVars, aesVars, platformVars, atWork>>

\* The threads run on; whether events come and who destroys is open.
Fairness ==
  /\ WF_vars(WatermarkStep(Worker))
  /\ WF_vars(WatermarkStep(Dtor))
  /\ WF_vars(WatermarkStep(ScheduleNext))

Spec == Init /\ [][Next]_vars
FairSpec == Spec /\ Fairness
=============================================================================
