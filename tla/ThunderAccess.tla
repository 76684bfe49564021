---------------------------- MODULE ThunderAccess ----------------------------
(***************************************************************************)
(* PlayerThunderInterface and PlayerThunderAccess: a shim's calls of a        *)
(* Thunder plugin, with the events it subscribes to.  One shim at a time:   *)
(* an HDMI or composite input (videoin), OTA, RMF, or the watermark.        *)
(*                                                                         *)
(* A call of the plugin does its work or not, and says so or not: it may    *)
(* have worked although InvokeJSONRPC timed out.  A subscription that is    *)
(* not confirmed leaves no handler in the link.  The plugins, the link and  *)
(* the clients, which are the shims of the application, are external; a     *)
(* shim registers once, until it unregisters.                               *)
(***************************************************************************)
EXTENDS Integers, Sequences, FiniteSets, SequencesExt

CONSTANTS
  Ports,           \* ports of an input
  Languages,       \* audio languages; "" is none
  Screens,         \* widths the shell and the display may have, 0 for none yet
  MaxThunderCalls  \* bound: calls of the shim

ASSUME ThunderAssumption ==
  Ports \subseteq Nat /\ Screens \subseteq Nat /\ MaxThunderCalls \in Nat

VARIABLES
  thunder,         \* USE_CPP_THUNDER_PLUGIN_ACCESS: otherwise FakeThunderAccess
  shim,
  token,           \* gPlayerSecurityData: unqueried, none, or held
  registering,     \* events the call under way has still to subscribe to
  mRegisteredEvents, mEventSubscribed, videoInputPort,
  callbacks,       \* std::function members that were set
  subscribed,      \* the link has a handler, and the plugin notifies of it
  input,           \* at the plugin: the port of an input, or -1
  player,          \* at the plugin: none, created, loaded
  language,        \* at MediaSettings: preferredAudioLanguage
  locked,          \* at the plugin: content restrictions
  rectangle,       \* at the plugin: offset, width, and the width of what it is in,
                   \* if that was sent or known
  layers,          \* at the plugin: watermarks, and whether they are shown
  returned,        \* what the last call returned
  wanted,          \* history: the shim registered and did not unregister
  stopFailed,      \* history: a stop was sent and not done
  clientCalls

thunderVars == <<thunder, shim, token, registering, mRegisteredEvents, mEventSubscribed,
                 videoInputPort, callbacks, subscribed, input, player, language, locked,
                 rectangle, layers, returned, wanted, stopFailed, clientCalls>>
linkVars == <<registering, mRegisteredEvents, mEventSubscribed, callbacks, subscribed, wanted>>
inputVars == <<videoInputPort, input, stopFailed>>
otaVars == <<player, language, locked>>
pictureVars == <<rectangle, layers>>

Shims == {"videoin", "ota", "rmf", "watermark"}
Events == {"onInputStatusChanged", "onSignalChanged", "videoStreamInfoUpdate",
           "onPlayerStatus", "onStatusChanged", "onError"}

ThunderTypeOK ==
  /\ thunder \in BOOLEAN /\ shim \in Shims /\ token \in {"unqueried", "none", "held"}
  /\ registering \in Seq(Events) /\ mRegisteredEvents \in Seq(Events)
  /\ mEventSubscribed \in BOOLEAN /\ videoInputPort \in Ports \union {-1}
  /\ callbacks \subseteq Events /\ subscribed \subseteq Events
  /\ input \in Ports \union {-1} /\ player \in {"none", "created", "loaded"}
  /\ language \in Languages /\ locked \in BOOLEAN /\ layers \in SUBSET {"made", "shown"}

\* mEventSubscribed is set by no constructor.
ThunderInit ==
  /\ thunder \in BOOLEAN /\ shim \in Shims /\ token = "unqueried"
  /\ registering = <<>> /\ mRegisteredEvents = <<>> /\ mEventSubscribed \in BOOLEAN
  /\ shim # "ota" => ~mEventSubscribed
  /\ videoInputPort = -1 /\ callbacks = {} /\ subscribed = {}
  /\ input = -1 /\ player = "none" /\ language = "" /\ locked = TRUE
  /\ rectangle = <<>> /\ layers = {}
  /\ returned = "none" /\ wanted = FALSE /\ stopFailed = FALSE /\ clientCalls = 0

-----------------------------------------------------------------------------
(* The link.                                                               *)

\* The constructor asks for the token once in the process, whatever comes.
ConnectPlugin ==
  /\ token = "unqueried"
  /\ token' \in {"none", "held"}
  /\ UNCHANGED <<thunder, shim, linkVars, inputVars, otaVars, pictureVars, returned, clientCalls>>

\* A call of the shim, when no other is under way.
Calls(c) ==
  /\ thunder /\ token # "unqueried" /\ shim = c
  /\ registering = <<>> /\ clientCalls < MaxThunderCalls
  /\ clientCalls' = clientCalls + 1
  /\ UNCHANGED <<thunder, shim, token>>

\* InvokeJSONRPC: whether the plugin did it, and whether it was said to.
Outcomes == {[did |-> TRUE, said |-> TRUE], [did |-> TRUE, said |-> FALSE],
             [did |-> FALSE, said |-> FALSE]}

\* FakeThunderAccess answers every call with failure and does nothing.
FakeCall ==
  /\ ~thunder /\ token # "unqueried" /\ returned = "none"
  /\ returned' = "failed"
  /\ UNCHANGED <<thunder, shim, token, linkVars, inputVars, otaVars, pictureVars, clientCalls>>

-----------------------------------------------------------------------------
(* Events.                                                                 *)

EventsOf(c) ==
  CASE c = "videoin" -> <<"onInputStatusChanged", "onSignalChanged">>
    [] c = "ota" -> <<"onPlayerStatus">>
    [] c = "rmf" -> <<"onStatusChanged", "onError">>
    [] OTHER -> <<>>

\* Faulty variant: they are stored when the subscriptions are made.
StoresCallbacks_First(events) == callbacks' = callbacks \union {Head(events)}

\* The callbacks are stored before the first subscription.
StoresCallbacks(events) == callbacks' = callbacks \union ToSet(events)

\* RegisterAllEventsVideoin, RegisterOnPlayerStatusOta, StartRmf
Registers(c) ==
  /\ Calls(c) /\ ~wanted /\ EventsOf(c) # <<>>
  /\ StoresCallbacks(EventsOf(c))
  /\ registering' = EventsOf(c)
  /\ wanted' = TRUE
  /\ UNCHANGED <<mRegisteredEvents, mEventSubscribed, subscribed, inputVars, otaVars,
                 pictureVars, returned>>

\* RegisterEventOnVideoStreamInfoUpdateHdmiin, between the other two and their end
RegistersVideoInfo ==
  /\ Calls("videoin") /\ wanted /\ "videoStreamInfoUpdate" \notin ToSet(mRegisteredEvents)
  /\ StoresCallbacks(<<"videoStreamInfoUpdate">>)
  /\ registering' = <<"videoStreamInfoUpdate">>
  /\ UNCHANGED <<mRegisteredEvents, mEventSubscribed, subscribed, wanted, inputVars,
                 otaVars, pictureVars, returned>>

\* SubscribeEvent, and what each shim keeps of it: RegisterEvent_VIDEOIN a
\* list, OTA a flag, RMF nothing.  StartRmf ends by telling the plugin to play.
Keeps(e, ok) ==
  /\ mRegisteredEvents' = IF shim = "videoin" /\ ok THEN Append(mRegisteredEvents, e)
                          ELSE mRegisteredEvents
  /\ mEventSubscribed' = IF shim = "ota" THEN ok ELSE mEventSubscribed

SubscribeEvent ==
  /\ registering # <<>>
  /\ registering' = Tail(registering)
  /\ \E ok \in BOOLEAN :
       /\ Keeps(Head(registering), ok)
       /\ subscribed' = IF ok THEN subscribed \union {Head(registering)} ELSE subscribed
  /\ IF shim = "rmf" /\ Len(registering) = 1
     THEN \E o \in Outcomes : /\ returned' = IF o.said THEN "done" ELSE "failed"
                              /\ player' = IF o.did THEN "loaded" ELSE player
     ELSE UNCHANGED <<returned, player>>
  /\ UNCHANGED <<thunder, shim, token, callbacks, wanted, inputVars, language, locked,
                 pictureVars, clientCalls>>

\* UnRegisterAllEventsVideoin
UnRegisterAllEventsVideoin ==
  /\ Calls("videoin")
  /\ subscribed' = subscribed \ ToSet(mRegisteredEvents)
  /\ mRegisteredEvents' = <<>>
  /\ wanted' = FALSE
  /\ UNCHANGED <<registering, mEventSubscribed, callbacks, inputVars, otaVars, pictureVars,
                 returned>>

\* The event is unsubscribed if its subscription was confirmed.
ReleaseOta ==
  /\ Calls("ota")
  /\ \E o \in Outcomes : player' = IF o.did THEN "none" ELSE player
  /\ subscribed' = IF mEventSubscribed THEN subscribed \ {"onPlayerStatus"} ELSE subscribed
  /\ mEventSubscribed' = FALSE
  /\ wanted' = FALSE
  /\ UNCHANGED <<registering, mRegisteredEvents, callbacks, inputVars, language, locked,
                 pictureVars, returned>>

\* Both are unsubscribed, whatever came of their subscriptions and of the stop.
StopRmf ==
  /\ Calls("rmf")
  /\ \E o \in Outcomes : player' = IF o.did THEN "none" ELSE player
  /\ subscribed' = subscribed \ {"onStatusChanged", "onError"}
  /\ wanted' = FALSE
  /\ UNCHANGED <<registering, mRegisteredEvents, mEventSubscribed, callbacks, inputVars,
                 language, locked, pictureVars, returned>>

-----------------------------------------------------------------------------
(* Inputs.                                                                 *)

\* Faulty variant: the port is kept if the plugin confirms.
KeepsPort_IfSaid(p, o) == videoInputPort' = IF o.said THEN p ELSE videoInputPort

\* The port is kept whatever comes of the call, so that the input can be stopped.
KeepsPort(p, o) == videoInputPort' = p

StartHelperVideoin ==
  /\ Calls("videoin")
  /\ \E p \in Ports, o \in Outcomes :
       /\ KeepsPort(p, o)
       /\ input' = IF o.did THEN p ELSE input
  /\ UNCHANGED <<linkVars, otaVars, pictureVars, stopFailed, returned>>

StopHelperVideoin ==
  /\ Calls("videoin")
  /\ IF videoInputPort >= 0
     THEN \E o \in Outcomes :
            /\ input' = IF o.did THEN -1 ELSE input
            /\ stopFailed' = (stopFailed \/ ~o.did)
            /\ videoInputPort' = -1
     ELSE UNCHANGED inputVars
  /\ UNCHANGED <<linkVars, otaVars, pictureVars, returned>>

-----------------------------------------------------------------------------
(* OTA and RMF.                                                            *)

\* SetPreferredAudioLanguages_OTA: MediaSettings is told of a language that is
\* not the one the shim found there.
SetPreferredAudioLanguages(wants, found) ==
  IF wants # "" /\ wants # found
  THEN \E o \in Outcomes : language' = IF o.did THEN wants ELSE language
  ELSE UNCHANGED language

\* A player is created, given the display and loaded; no result is looked at.
StartOta ==
  /\ Calls("ota")
  /\ \E wants, found \in Languages : SetPreferredAudioLanguages(wants, found)
  /\ \E create, load \in Outcomes :
       player' = IF ~create.did /\ player = "none" THEN "none"
                 ELSE IF load.did THEN "loaded"
                 ELSE IF player = "none" THEN "created" ELSE player
  /\ UNCHANGED <<linkVars, inputVars, locked, pictureVars, returned>>

StopOta ==
  /\ Calls("ota")
  /\ \E o \in Outcomes : player' = IF o.did /\ player = "loaded" THEN "created" ELSE player
  /\ UNCHANGED <<linkVars, inputVars, language, locked, pictureVars, returned>>

\* GetAudioTracksOta says which track is current, GetTextTracksOta whether
\* there is one; the tracks go to their own copy of the shim's vector.
GetTracksOta ==
  /\ Calls("ota")
  /\ returned' \in (IF player = "loaded" THEN {"current", "none"} ELSE {"none"})
  /\ UNCHANGED <<linkVars, inputVars, otaVars, pictureVars>>

SetAudioTrackOta ==
  /\ Calls("ota")
  /\ \E o \in Outcomes : returned' = IF o.said /\ player = "loaded" THEN "current" ELSE "none"
  /\ UNCHANGED <<linkVars, inputVars, otaVars, pictureVars>>

ContentRestrictionsOta ==
  /\ Calls("ota")
  /\ \E to \in BOOLEAN, o \in Outcomes : locked' = IF o.did THEN to ELSE locked
  /\ UNCHANGED <<linkVars, inputVars, player, language, pictureVars, returned>>

\* The plugin may be active already: that ActivatePlugin failed says nothing.
InitRmf ==
  /\ Calls("rmf")
  /\ \E o \in Outcomes : returned' = IF o.said THEN "done" ELSE "failed"
  /\ UNCHANGED <<linkVars, inputVars, otaVars, pictureVars>>

-----------------------------------------------------------------------------
(* Pictures.                                                               *)

\* GetScreenResolution and GetResolutionFromDS_VIDEOIN: the width, if RDKShell
\* or DisplaySettings says so.
Widths == {{w} : w \in Screens} \union {{}}

\* SetVideoRectangle_VIDEOIN scales from the screen to the display if both are
\* known and the screen has a width; SetVideoRectangle_OTA sends the screen
\* along; SetVideoRectangle_RMF sends the rectangle alone.
RectangleOf(x, w, screen, display) ==
  IF shim = "videoin" /\ display # {} /\ screen \notin {{}, {0}}
  THEN LET Scaled(n) == (n * Max(display)) \div Max(screen)
       IN  <<Scaled(x), Scaled(w), display>>
  ELSE <<x, w, IF shim = "ota" THEN screen ELSE {}>>

SetVideoRectangle ==
  /\ \E c \in Shims \ {"watermark"} : Calls(c)
  /\ \E screen, display \in Widths, x, w \in UNION {0..n : n \in Screens}, o \in Outcomes :
       /\ \A width \in screen : x + w <= width
       /\ rectangle' = IF o.did THEN RectangleOf(x, w, screen, display) ELSE rectangle
       /\ returned' = IF o.said THEN "done" ELSE "failed"
  /\ UNCHANGED <<linkVars, inputVars, otaVars, layers>>

\* What the watermark shim asks of the plugin, whose answer it gets.
WatermarkCall ==
  /\ Calls("watermark")
  /\ \E o \in Outcomes :
       /\ returned' = IF o.said THEN "done" ELSE "failed"
       /\ \/ layers' = IF o.did THEN layers \union {"made"} ELSE layers       \* CreateWatermark
          \/ layers' = IF o.did THEN layers \ {"made"} ELSE layers            \* DeleteWatermark
          \/ layers' = IF o.did THEN layers \union {"shown"} ELSE layers      \* ShowWatermark
          \/ layers' = IF o.did THEN layers \ {"shown"} ELSE layers           \* HideWatermark
          \/ layers' = layers       \* UpdateWatermark and the persistent store
  /\ UNCHANGED <<linkVars, inputVars, otaVars, rectangle>>

ThunderNext ==
  \/ ConnectPlugin \/ FakeCall
  \/ (\E c \in Shims : Registers(c)) \/ SetVideoRectangle
  \/ RegistersVideoInfo \/ SubscribeEvent
  \/ UnRegisterAllEventsVideoin \/ ReleaseOta \/ StopRmf
  \/ StartHelperVideoin \/ StopHelperVideoin
  \/ StartOta \/ StopOta \/ GetTracksOta \/ SetAudioTrackOta \/ ContentRestrictionsOta
  \/ InitRmf \/ WatermarkCall

ThunderSpec == ThunderInit /\ [][ThunderNext]_thunderVars

-----------------------------------------------------------------------------
(* Properties.                                                             *)

\* An event finds its callback, whatever of the registration has been done;
\* a shim that unregistered hears of nothing; an input that runs can be
\* stopped, whatever its start came to, unless a stop failed and is forgotten;
\* a rectangle inside the screen is inside the display.
ClientHearsAndStops ==
  /\ subscribed \subseteq callbacks
  /\ ~wanted => subscribed = {}
  /\ input >= 0 => videoInputPort >= 0 \/ stopFailed
  /\ rectangle # <<>> => \A width \in rectangle[3] : rectangle[1] + rectangle[2] <= width
=============================================================================
